---- MODULE Spec2Model ----
(***************************************************************************)
(* Model of the live ingestion layer of poe-watcher:                       *)
(*   - the token-bucket rate limiter, the TTL response cache and the three *)
(*     fetch operations of PoeApiClient (src-tauri/src/api_client.rs);     *)
(*   - the log tailer LogWatcher (src-tauri/src/log_watcher.rs).           *)
(*                                                                         *)
(* Time.  Instants are kept relative to the current instant: the model     *)
(* stores now - last_update (elapsed), expires_at - now (ttl_left), the    *)
(* remaining sleep of a task (sleep_left) and the age of every issued      *)
(* request.  One tick is 100 ms.  Token amounts are fixed-point numbers    *)
(* with TokenScale units per token, so that the f64 arithmetic of the      *)
(* limiter is exact at tick resolution.                                    *)
(*                                                                         *)
(* Async tasks are scheduled cooperatively: code between two .await        *)
(* points runs without suspension, so the states in which a task is in     *)
(* the middle of such a stretch ("locked", "acquired") are urgent: the     *)
(* clock does not advance in them.                                         *)
(***************************************************************************)
EXTENDS Integers, Sequences, FiniteSets, TLC

\* ------------------------------------------------------------------------
\* Program constants
\* ------------------------------------------------------------------------
MAX_TOKENS == 10
REFILL_RATE == 5
CHARACTERS_TTL == 60
ITEMS_TTL == 30
PASSIVE_TTL == 30
\* the receive timeout of the tailer loop, the shortest duration the program
\* names: the resolution of the model's clock (one tick)
RECV_TIMEOUT_MS == 100

\* ------------------------------------------------------------------------
\* Bounds of the model
\* ------------------------------------------------------------------------
\* calls made in the limiter-under-load scenario
MaxCalls == 11
\* calls made in the cache scenario
MaxFetch == 3
\* clock advances in the cache scenario
MaxAdvances == 2
\* lines the game writes to the log
MaxLines == 2
\* message fragments in a line given to parse_line
MaxFrags == 2
\* filesystem notifications the channel holds before they coalesce
MaxNotif == 1
\* successful read passes in a row that are counted at one file length
MaxQuiet == 2
\* notifications that wait in the channel when changes follow one another
\* faster than the loop thread receives them
MaxPending == MaxNotif + 1
\* calls made after the burst in the drained-bucket scenario
MaxWaitCalls == 3
\* runs of capture_snapshot_for_split each task makes
MaxRuns == 1
\* loop threads one LogWatcher can have left behind at a time
MaxOrphans == 1

Callers == {"a", "b"}
\* the LogWatcher objects
Watchers == {"w1", "w2"}
\* the watcher the host starts and stops itself in the tailer scenario
Direct == {"w1"}
\* the invocations of the start_log_watcher command
Cmds == {"k1", "k2"}
Urls == {"get-characters", "get-items", "get-passive-skills"}
\* outcomes of send().await and text().await the service is given: no
\* response at all, the two domain errors, a success with a well-formed, a
\* malformed or an unreadable body, and a server error with an error page
Responses == {<<0, "unreadable">>, <<403, "bad">>, <<429, "bad">>,
              <<200, "good">>, <<200, "bad">>, <<200, "unreadable">>,
              <<500, "bad">>}
\* the operations each task calls: one task refreshes the character list and
\* the items, the other the items and the passive tree
UrlsOf(c) ==
    IF c = "a" THEN {"get-characters", "get-items"}
    ELSE {"get-items", "get-passive-skills"}

TicksPerSec == 1000 \div RECV_TIMEOUT_MS
\* fixed-point units per token: one tick refills exactly one unit
TokenScale == TicksPerSec \div REFILL_RATE
OneToken == TokenScale
\* ticks after which a bucket holding t is full again: a refill after a
\* longer time gives the same tokens, so elapsed is not counted beyond it
ElapsedCap(t) == ((MAX_TOKENS * TokenScale - t) * TicksPerSec)
                    \div (REFILL_RATE * TokenScale)
\* request ages are exact below HistCap; HistCap stands for "HistCap or older"
HistCap == (MaxCalls - MAX_TOKENS) * TokenScale

Min(x, y) == IF x <= y THEN x ELSE y
Max(x, y) == IF x >= y THEN x ELSE y

VARIABLES
    tokens,      \* RateLimiter.tokens, in 1/TokenScale of a token
    elapsed,     \* now - RateLimiter.last_update, in ticks (saturating)
    lock,        \* holder of the rate_limiter mutex, or "free"
    cache,       \* PoeApiClient.cache: url -> [data, ttl_left]
    pc,          \* position of each caller's task inside get_*
    url,         \* request key of the caller's current call ("none": no call)
    sleep_left,  \* remaining time of the caller's tokio::time::sleep
    returned,    \* the value a call returns in the step that led to this
                 \* state: the kind of result, its source and the HTTP
                 \* status of the response it was computed from
                 \* (NoReturn when the step was not a return)
    acq,         \* successful try_acquire of the caller's current call
    sent,        \* HTTP requests issued by the caller's current call
    slept,       \* the caller has slept in this wait and not acquired yet
    requests,    \* ages (ticks) of the primary requests issued so far
    budget,      \* calls the environment may still start
    advances     \* clock advances taken in the cache scenario

apiVars == <<tokens, elapsed, lock, cache, pc, url, sleep_left, returned,
             acq, sent, slept, requests, budget, advances>>

VARIABLES
    file,          \* content of the log file: a sequence of tokens
    rest,          \* what the game has still to write of its current line
    lines_left,    \* lines the game may still start
    tpc,           \* position of each watcher's loop thread in watch_loop
    file_position, \* LogWatcher.file_position, the cursor
    start_len,     \* length of the file when start() was called
    watcher,       \* LogWatcher.watcher is Some: the directory is watched
    stop_tx,       \* LogWatcher.stop_tx is Some
    stop_chan,     \* the stop channel: "empty", "signal" or "closed"
    notif,         \* filesystem notifications waiting in the channel rx
    pending,       \* the events read_new_lines returned to the loop thread
                   \* and the thread has not emitted yet
    orphans,       \* for every LogWatcher, the loop threads a later start()
                   \* on it has left running: position, stop channel,
                   \* notifications waiting, events not yet emitted
    starting,      \* how far start() has come on the LogWatcher: "no" when
                   \* none is under way, "len" / "no_len" when the metadata
                   \* has been read or could not be, "watch" when the cursor
                   \* and the stop sender are set and no watcher is made
    emitted,       \* the events delivered to the consumer, in order
    pass_result    \* outcome of the read pass taken in the step that led
                   \* to this state ("none" when the step was no pass)

tailVars == <<file, rest, lines_left, tpc, file_position, start_len, watcher,
              stop_tx, stop_chan, notif, pending, orphans, starting, emitted,
              pass_result>>

VARIABLES
    exists,        \* the log file exists
    slot,          \* LOG_WATCHER: the watcher the global slot holds, or "none"
    cpc,           \* position of each start_log_watcher invocation
    cw             \* the watcher an invocation holds in its local variable

cmdVars == <<exists, slot, cpc, cw>>

VARIABLES
    line,          \* a line given to parse_line
    parsed         \* what parse_line returned for it

parseVars == <<line, parsed>>

VARIABLES
    burst,         \* outcomes (1: true, 0: false) of the try_acquire calls
                   \* made on a limiter since its construction, as long as
                   \* no time has passed
    wait_time,     \* what the last time_until_available call returned, in
                   \* ticks (-1: none since tokens last changed)
    stored,        \* for every key, the last cache_response call: its
                   \* data, its ttl, the time since, and how many there were
    looked,        \* the last get_cached call: its key and what it returned
    quiet,         \* for every watcher, the length of the file at its last
                   \* successful read pass and how many successful passes
                   \* in a row found the file at that length
    late,          \* for every watcher, the read passes its thread has made
                   \* since stop() sent the stop signal
    failed,        \* for every watcher, its last failed read pass: the
                   \* cursor it started from (-1: no pass has failed), the
                   \* unread tokens the file held, the events delivered
                   \* by then, and whether a pass has succeeded since
    before         \* for every start_log_watcher invocation, the tailer
                   \* that was active in the slot when it was called
                   \* ("none": there was none) and that tailer's cursor

unitVars == <<burst, wait_time, stored, looked, quiet, late, failed, before>>

VARIABLES
    apc,           \* position of the proxy_image and the upload_to_pobbin task
    aurl,          \* the url the last proxy_image call was given
    aux_sent,      \* the requests the two commands have issued: command,
                   \* url and the host the request goes to
    aret,          \* what the last step of a command returned (NoAux when
                   \* it issued its request and went on)
    snap           \* for every task that runs capture_snapshot_for_split:
                   \* its position, the runs it has started, and for its
                   \* current (or last) run the operations it called, their
                   \* results, the result of Snapshot::insert and the
                   \* terminal events emitted; and the snapshots it stored

auxVars == <<apc, aurl, aux_sent, aret, snap>>

vars == <<apiVars, tailVars, cmdVars, parseVars, unitVars, auxVars>>

\* ------------------------------------------------------------------------
\* RateLimiter (pure parts)
\* ------------------------------------------------------------------------
\* refill that credits the elapsed time twice
refill_twice(t, e) ==
    Min(t + (2 * e * REFILL_RATE * TokenScale) \div TicksPerSec,
        MAX_TOKENS * TokenScale)

\* refill with the elapsed time taken in whole seconds (as_secs)
refill_whole_secs(t, e) ==
    Min(t + (e \div TicksPerSec) * REFILL_RATE * TokenScale,
        MAX_TOKENS * TokenScale)

\* RateLimiter::refill: tokens after adding elapsed * refill_rate, capped
refill(t, e) ==
    Min(t + (e * REFILL_RATE * TokenScale) \div TicksPerSec,
        MAX_TOKENS * TokenScale)

\* try_acquire that takes a token whenever the bucket is not empty
try_acquire_nonempty(t, e) ==
    LET r == refill(t, e)
    IN  IF r > 0 THEN <<TRUE, r - OneToken>> ELSE <<FALSE, r>>

\* try_acquire that asks for more than one token to be there
try_acquire_strict(t, e) ==
    LET r == refill(t, e)
    IN  IF r > OneToken THEN <<TRUE, r - OneToken>> ELSE <<FALSE, r>>

\* try_acquire that does not refill first
try_acquire_stale(t, e) ==
    IF t >= OneToken THEN <<TRUE, t - OneToken>> ELSE <<FALSE, t>>

\* RateLimiter::try_acquire on refilled tokens: <<success, tokens left>>
try_acquire(t, e) ==
    LET r == refill(t, e)
    IN  IF r >= OneToken THEN <<TRUE, r - OneToken>> ELSE <<FALSE, r>>

\* time_until_available that always waits for a whole token
time_until_available_full(t) ==
    IF t >= OneToken THEN 0
    ELSE (OneToken * TicksPerSec) \div (REFILL_RATE * TokenScale)

\* RateLimiter::time_until_available, in ticks
time_until_available(t) ==
    IF t >= OneToken THEN 0
    ELSE ((OneToken - t) * TicksPerSec) \div (REFILL_RATE * TokenScale)

\* ------------------------------------------------------------------------
\* Response cache (pure parts)
\* ------------------------------------------------------------------------
\* get_cached that still serves an entry at the instant it expires
get_cached_inclusive(c, u) ==
    IF u \in DOMAIN c /\ c[u].ttl_left >= 0 THEN <<c[u].data>> ELSE <<>>

\* get_cached with the expiry comparison the wrong way round
get_cached_expired(c, u) ==
    IF u \in DOMAIN c /\ c[u].ttl_left <= 0 THEN <<c[u].data>> ELSE <<>>

\* PoeApiClient::get_cached: <<data>> for Some(data), <<>> for None
get_cached(c, u) ==
    IF u \in DOMAIN c /\ c[u].ttl_left > 0 THEN <<c[u].data>> ELSE <<>>

\* cache_response that keeps the entry a key already has (entry().or_insert)
cache_response_keep(c, u, data, ttl) ==
    [k \in DOMAIN c \cup {u} |->
        IF k \in DOMAIN c THEN c[k]
        ELSE [data |-> data, ttl_left |-> ttl * TicksPerSec]]

\* PoeApiClient::cache_response: HashMap::insert with expires_at = now + ttl
cache_response(c, u, data, ttl) ==
    [k \in DOMAIN c \cup {u} |->
        IF k = u THEN [data |-> data, ttl_left |-> ttl * TicksPerSec]
        ELSE c[k]]

\* TTL (seconds) each operation passes to cache_response
ttl_of(u) ==
    CASE u = "get-characters" -> CHARACTERS_TTL
      [] u = "get-items" -> ITEMS_TTL
      [] OTHER -> PASSIVE_TTL

\* serde_json::from_str(&text)?: Ok for a well-formed body of the result type
from_str(data) == IF data = "good" THEN "ok" ELSE "deserialize"

Returns(kind, src, st) == [kind |-> kind, src |-> src, status |-> st]

\* no call returns in this step
NoReturn == Returns("none", "none", 0)

\* ------------------------------------------------------------------------
\* The log file and parse_line
\* ------------------------------------------------------------------------
\* The file is a sequence of tokens, each one byte of the cursor's count:
\*   "TS"     a timestamp, \d{4}/\d{2}/\d{2} \d{2}:\d{2}:\d{2}, the text
\*            2024/01/15 12:34:56
\*   "]"      the "] " that closes the engine's prefix
\*   "ENT"    "You have entered "       "."       a period
\*   "("      " ("                      ")LVL"   ") is now level "
\*   "SLAIN"  " has been slain"         "0".."9"  ASCII decimal digits
\*   "NAD"    a decimal digit that is not ASCII (class Nd), such as U+0663
\*   "GID"    "Got Instance Details"    "CON"     "Connecting to instance server"
\*   "x"      any other text            "\n"      the line terminator
\*   "BAD"    a byte sequence that is not valid UTF-8
AsciiDigits == {"0", "1", "2", "3", "4", "5", "6", "7", "8", "9"}
\* what "\d" matches: the pattern is compiled with Unicode classes
Digits == AsciiDigits \cup {"NAD"}

ZoneLine == <<"TS", "]", "ENT", "x", ".", "\n">>
LevelLine == <<"TS", "]", "x", "(", "x", ")LVL", "1", "0", "\n">>
NoiseLine == <<"x", "\n">>
\* the lines the game writes
LogLines == {ZoneLine, LevelLine, NoiseLine}
\* a line read_line cannot decode
BadLine == <<"BAD", "\n">>
\* the lines written in the scenario of undecodable content
ContentLines == {BadLine, ZoneLine, NoiseLine}

MaxOf(S) == CHOOSE x \in S : \A y \in S : y <= x
MinOf(S) == CHOOSE x \in S : \A y \in S : x <= y

Event(type, timestamp, name, class, level) ==
    [type |-> type, timestamp |-> timestamp, name |-> name, class |-> class,
     level |-> level]
\* parse_line returned None
NoEvent == Event("none", "", <<>>, <<>>, 0)
\* parse_line has not returned yet
Unparsed == Event("unparsed", "", <<>>, <<>>, 0)

\* the text a pattern is matched against: "." does not match the terminator
Content(l) ==
    IF Len(l) > 0 /\ l[Len(l)] = "\n" THEN SubSeq(l, 1, Len(l) - 1) ELSE l

\* a timestamp, then ".*", then "] " at j followed by the marker m
MarkerAt(s, j, m) ==
    /\ j + 1 <= Len(s)
    /\ s[j] = "]"
    /\ s[j + 1] = m
    /\ \E i \in 1..(j - 1) : s[i] = "TS"

\* a timestamp, then ".*", then "] " at j
BracketAt(s, j) == s[j] = "]" /\ \E i \in 1..(j - 1) : s[i] = "TS"

\* ZONE_ENTER: "(.+)\." after the marker at j
ZoneEnd(s, j) == {k \in (j + 3)..Len(s) : s[k] = "."}
\* "(.+)" that stops at the first period
ZoneStop_lazy(s, j) == MinOf(ZoneEnd(s, j))
\* the greedy "(.+)" runs to the last period that can end the match
ZoneStop(s, j) == MaxOf(ZoneEnd(s, j))
ZoneAt(s) == {j \in 1..Len(s) : MarkerAt(s, j, "ENT") /\ ZoneEnd(s, j) # {}}

\* the digits the text of a timestamp begins with
StampDigits == <<"2", "0", "2", "4">>

\* LEVEL_UP: "(.+?) \(" ends at p, "(.+?)\) is now level (\d+)" ends at q;
\* the digit "(\d+)" asks for can be the first one of a timestamp
LevelClose(s, p) ==
    {q \in (p + 2)..(Len(s) - 1) :
        s[q] = ")LVL" /\ s[q + 1] \in Digits \cup {"TS"}}
LevelOpen(s, j) ==
    {p \in (j + 2)..Len(s) : s[p] = "(" /\ LevelClose(s, p) # {}}
LevelAt(s) == {j \in 1..Len(s) : BracketAt(s, j) /\ LevelOpen(s, j) # {}}
\* "(\d+?)": a run of digits that stops after the first one
DigitsEnd_lazy(s, q) == IF s[q] \in Digits THEN q ELSE q - 1
\* the end of the greedy run of digit tokens that starts at q, q - 1 when
\* there is none
DigitsEnd(s, q) ==
    MaxOf({e \in (q - 1)..Len(s) : \A i \in q..e : s[i] \in Digits})
\* caps[4], the text "(\d+)" matches after the ") is now level " at q: the
\* run of digits, which goes on into a timestamp that follows it
LevelField(s, q) ==
    LET e == DigitsEnd(s, q + 1)
    IN  SubSeq(s, q + 1, e)
            \o (IF e < Len(s) /\ s[e + 1] = "TS" THEN StampDigits ELSE <<>>)

\* DEATH: "(.+?) has been slain\." ends at p
DeathEnd(s, j) ==
    {p \in (j + 2)..(Len(s) - 1) : s[p] = "SLAIN" /\ s[p + 1] = "."}
DeathAt(s) == {j \in 1..Len(s) : BracketAt(s, j) /\ DeathEnd(s, j) # {}}

DigitVal(c) ==
    CASE c = "0" -> 0 [] c = "1" -> 1 [] c = "2" -> 2 [] c = "3" -> 3
      [] c = "4" -> 4 [] c = "5" -> 5 [] c = "6" -> 6 [] c = "7" -> 7
      [] c = "8" -> 8 [] c = "9" -> 9

\* u32::MAX = 4294967295, digit by digit
U32_MAX == <<"4", "2", "9", "4", "9", "6", "7", "2", "9", "5">>

\* the digits without their leading zeros
RECURSIVE Significant(_)
Significant(d) ==
    IF d # <<>> /\ d[1] = "0" THEN Significant(Tail(d)) ELSE d

\* a > b for two runs of ASCII digits of the same length
Exceeds(a, b) ==
    \E i \in 1..Len(a) :
        /\ \A j \in 1..(i - 1) : a[j] = b[j]
        /\ DigitVal(a[i]) > DigitVal(b[i])

\* the number a run of ASCII digits denotes
RECURSIVE Decimal(_)
Decimal(d) ==
    IF d = <<>> THEN 0
    ELSE 10 * Decimal(SubSeq(d, 1, Len(d) - 1)) + DigitVal(d[Len(d)])

\* Err(ParseIntError)
ParseErr == -1

\* caps[4].parse::<u32>(): an error for a digit that is not ASCII and for
\* a number above u32::MAX, the number otherwise
parse_u32(d) ==
    IF \E i \in 1..Len(d) : d[i] \notin AsciiDigits THEN ParseErr
    ELSE IF \/ Len(Significant(d)) > Len(U32_MAX)
            \/ /\ Len(Significant(d)) = Len(U32_MAX)
               /\ Exceeds(Significant(d), U32_MAX)
         THEN ParseErr
    ELSE Decimal(Significant(d))

\* .unwrap_or_default(): level 0 when the field does not parse
level_or_default(d) == IF parse_u32(d) = ParseErr THEN 0 ELSE parse_u32(d)

\* caps[4].parse().unwrap_or(1)
level_or_1(d) == IF parse_u32(d) = ParseErr THEN 1 ELSE parse_u32(d)

\* the first timestamp of the text (caps[1])
Stamp(s) == s[MinOf({i \in 1..Len(s) : s[i] = "TS"})]

\* parse_line that tries the death pattern before the others
parse_line_death_first(l) ==
    LET s == Content(l) IN
    IF DeathAt(s) # {} THEN
        LET j == MaxOf(DeathAt(s))
            p == MinOf(DeathEnd(s, j))
        IN Event("death", Stamp(s), SubSeq(s, j + 1, p - 1), <<>>, 0)
    ELSE IF ZoneAt(s) # {} THEN
        LET j == MaxOf(ZoneAt(s))
            k == ZoneStop(s, j)
        IN Event("zone_enter", Stamp(s), SubSeq(s, j + 2, k - 1), <<>>, 0)
    ELSE IF LevelAt(s) # {} THEN
        LET j == MaxOf(LevelAt(s))
            p == MinOf(LevelOpen(s, j))
            q == MinOf(LevelClose(s, p))
        IN Event("level_up", Stamp(s), SubSeq(s, j + 1, p - 1),
                 SubSeq(s, p + 1, q - 1),
                 level_or_1(LevelField(s, q)))
    ELSE IF \E j \in 1..Len(s) : MarkerAt(s, j, "GID") THEN
        Event("instance_details", Stamp(s), <<>>, <<>>, 0)
    ELSE IF \E j \in 1..Len(s) : MarkerAt(s, j, "CON") THEN
        Event("login", Stamp(s), <<>>, <<>>, 0)
    ELSE NoEvent

\* a greedy ".*" takes the last place from which the rest matches, a lazy
\* ".+?" the first
parse_line(l) ==
    LET s == Content(l) IN
    IF ZoneAt(s) # {} THEN
        LET j == MaxOf(ZoneAt(s))
            k == ZoneStop(s, j)
        IN Event("zone_enter", Stamp(s), SubSeq(s, j + 2, k - 1), <<>>, 0)
    ELSE IF LevelAt(s) # {} THEN
        LET j == MaxOf(LevelAt(s))
            p == MinOf(LevelOpen(s, j))
            q == MinOf(LevelClose(s, p))
        IN Event("level_up", Stamp(s), SubSeq(s, j + 1, p - 1),
                 SubSeq(s, p + 1, q - 1),
                 level_or_1(LevelField(s, q)))
    ELSE IF DeathAt(s) # {} THEN
        LET j == MaxOf(DeathAt(s))
            p == MinOf(DeathEnd(s, j))
        IN Event("death", Stamp(s), SubSeq(s, j + 1, p - 1), <<>>, 0)
    ELSE IF \E j \in 1..Len(s) : MarkerAt(s, j, "GID") THEN
        Event("instance_details", Stamp(s), <<>>, <<>>, 0)
    ELSE IF \E j \in 1..Len(s) : MarkerAt(s, j, "CON") THEN
        Event("login", Stamp(s), <<>>, <<>>, 0)
    ELSE NoEvent

\* the messages a line given to parse_line is put together from
Frags ==
    {<<"]", "ENT", "x", ".">>, <<"]", "x", "(", "x", ")LVL", "1">>,
     <<"]", "x", "SLAIN", ".">>, <<"]", "GID">>, <<"]", "CON">>, <<"x">>}

RECURSIVE FragSeqs(_)
FragSeqs(n) ==
    IF n = 0 THEN {<<>>}
    ELSE FragSeqs(n - 1) \cup
         {t \o f : t \in FragSeqs(n - 1), f \in Frags}

\* the lines given to parse_line: with and without a timestamp in front
ParseInputs ==
    {<<"TS">> \o t \o <<"\n">> : t \in FragSeqs(MaxFrags)}
        \cup {t \o <<"\n">> : t \in FragSeqs(MaxFrags)}

\* text with none of the patterns' markers in it
PlainText == {<<"x">>, <<"x", "x">>}

\* what stands between the timestamp and the "] " of a message
Prefixes == {<<"TS">>, <<"TS", "x">>, <<"TS", "x", "]", "x">>}

\* level fields that fit a u32, each with the number it denotes
LevelCases ==
    {[field |-> <<"0">>, value |-> 0],
     [field |-> <<"7">>, value |-> 7],
     [field |-> <<"1", "0">>, value |-> 10],
     [field |-> <<"0", "1">>, value |-> 1],
     [field |-> <<"2", "1", "4", "7", "4", "8", "3", "6", "4", "7">>,
      value |-> 2147483647],
     [field |-> <<"0", "0", "0", "0", "0", "0", "0", "0", "0", "4", "2">>,
      value |-> 42]}

\* level fields "(\d+)" matches and parse::<u32>() rejects: digits that
\* are not ASCII, and numbers above u32::MAX
FailingFields ==
    {<<"NAD">>, <<"1", "NAD">>,
     <<"4", "2", "9", "4", "9", "6", "7", "2", "9", "6">>,
     <<"9", "9", "9", "9", "9", "9", "9", "9", "9", "9">>,
     <<"1", "0", "0", "0", "0", "0", "0", "0", "0", "0", "0">>}

\* "<timestamp> ...] <name> (<class>) is now level <n>"
LevelLineOf(pre, name, class, field) ==
    pre \o <<"]">> \o name \o <<"(">> \o class \o <<")LVL">> \o field
        \o <<"\n">>

\* the level-up lines given to parse_line, and lines in which a timestamp
\* follows the level or stands in its place
LevelInputs ==
    {LevelLineOf(pre, n, c, f) :
        pre \in Prefixes, n \in PlainText, c \in PlainText,
        f \in {lc.field : lc \in LevelCases} \cup FailingFields}
    \cup {<<"TS", "]", "x", "(", "x", ")LVL">> \o f \o <<"TS">> \o t
                \o <<"\n">> :
            f \in {<<>>, <<"1">>, <<"1", "0">>, <<"NAD">>},
            t \in {<<>>, <<"x">>, <<"]", "x", "SLAIN", ".">>}}

\* the end of the line read_line returns at offset p: the next terminator, or
\* the end of the file when there is none
LineEnd(f, p) ==
    IF \E e \in (p + 1)..Len(f) : f[e] = "\n"
    THEN MinOf({e \in (p + 1)..Len(f) : f[e] = "\n"})
    ELSE Len(f)

\* the lines the read_line loop returns from offset p on, each with its offset
RECURSIVE ReadLines(_, _)
ReadLines(f, p) ==
    IF p >= Len(f) THEN <<>>
    ELSE <<[off |-> p, line |-> SubSeq(f, p + 1, LineEnd(f, p))]>>
            \o ReadLines(f, LineEnd(f, p))

\* the events of the lines, in order, each with the offset of its line and
\* the cursor the pass started from
RECURSIVE Parsed(_, _, _)
Parsed(ls, w, from) ==
    IF ls = <<>> THEN <<>>
    ELSE (IF parse_line(ls[1].line) # NoEvent
          THEN <<[by |-> w, ev |-> parse_line(ls[1].line), off |-> ls[1].off,
                  from |-> from]>>
          ELSE <<>>)
         \o Parsed(Tail(ls), w, from)

\* read_new_lines that does not store the stream position
read_new_lines_no_advance(f, pos, w) ==
    [ok |-> \A i \in (pos + 1)..Len(f) : f[i] # "BAD",
     events |-> Parsed(ReadLines(f, pos), w, pos),
     pos |-> pos]

\* read_new_lines that stores the number of bytes it read in this pass
read_new_lines_relative(f, pos, w) ==
    [ok |-> \A i \in (pos + 1)..Len(f) : f[i] # "BAD",
     events |-> Parsed(ReadLines(f, pos), w, pos),
     pos |-> Max(pos, Len(f)) - pos]

\* read_new_lines on a file that can be opened: the events and the new
\* cursor (a seek past the end succeeds, reads nothing and leaves the
\* position where it is); read_line fails on bytes that are not UTF-8, and
\* then the whole pass returns the error
read_new_lines(f, pos, w) ==
    [ok |-> \A i \in (pos + 1)..Len(f) : f[i] # "BAD",
     events |-> Parsed(ReadLines(f, pos), w, pos),
     pos |-> Max(pos, Len(f))]

\* get_cached has not been called
NoLookup == [key |-> "none", val |-> <<>>]

\* burst once time has passed
Stale == <<2>>

\* no tailer was active when the command was called
NoTailer == [w |-> "none", pos |-> 0]

\* no read pass has failed
NoFailure == [pos |-> -1, unread |-> 0, seen |-> 0, redone |-> FALSE]

\* no direct call has been made on the limiter or on the cache, no read
\* pass has been counted
UnitIdle ==
    /\ burst = <<>>
    /\ wait_time = -1
    /\ stored = <<>>
    /\ looked = NoLookup
    /\ quiet = [w \in Watchers |-> [len |-> -1, n |-> 0]]
    /\ late = [w \in Watchers |-> 0]
    /\ failed = [w \in Watchers |-> NoFailure]
    /\ before = [k \in Cmds |-> NoTailer]

\* ------------------------------------------------------------------------
\* The commands proxy_image and upload_to_pobbin (pure parts)
\* ------------------------------------------------------------------------
\* A url is a sequence of tokens: a scheme ("https://", "http://", "ftp://",
\* "data:"), then for the first three the authority (userinfo and "@", the
\* host, a port) and a path
Schemes == {"https://", "http://", "ftp://", "data:"}
TRUSTED_HOST == "web.poecdn.com"

\* the urls proxy_image is called with
ProxyUrls ==
    {<<"https://", "web.poecdn.com", "/img">>,
     <<"http://", "web.poecdn.com", "/img">>,
     <<"https://", "WEB.POECDN.COM", "/img">>,
     <<"https://", "web.poecdn.com", ":8080", "/img">>,
     <<"ftp://", "web.poecdn.com", "/img">>,
     <<"https://", "web.poecdn.com", "@", "evil.example", "/img">>,
     <<"https://", "web.poecdn.com.evil.example", "/img">>,
     <<"https://", "evil.example", "/web.poecdn.com">>,
     <<"https://", "evil.example", "/img">>,
     <<"data:", "img">>,
     <<"web.poecdn.com", "/img">>}

\* the host is lowercased by the parser
Lower(h) == IF h = "WEB.POECDN.COM" THEN "web.poecdn.com" ELSE h

\* Err(ParseError) of Url::parse
BadUrl == [ok |-> FALSE, scheme |-> "", host |-> "none"]

\* reqwest::Url::parse: an error without a scheme; no host for a url that
\* has no authority; otherwise the host is what follows the userinfo
Url_parse(u) ==
    IF u = <<>> \/ u[1] \notin Schemes THEN BadUrl
    ELSE IF u[1] = "data:" THEN [ok |-> TRUE, scheme |-> u[1], host |-> "none"]
    ELSE IF Len(u) >= 4 /\ u[3] = "@"
    THEN [ok |-> TRUE, scheme |-> u[1], host |-> Lower(u[4])]
    ELSE IF Len(u) >= 2
    THEN [ok |-> TRUE, scheme |-> u[1], host |-> Lower(u[2])]
    ELSE BadUrl

\* a check of the text of the url: url.starts_with("https://web.poecdn.com")
allowed_prefix(u) ==
    Len(u) >= 2 /\ u[1] = "https://" /\ u[2] = "web.poecdn.com"

\* proxy_image lets the url through: it parses and
\* parsed.host_str() == Some("web.poecdn.com")
allowed(u) == Url_parse(u).ok /\ Url_parse(u).host = TRUSTED_HOST

\* what a command returns: Ok or Err with the kind of message
AuxRet(op, kind, msg) == [op |-> op, kind |-> kind, msg |-> msg]
NoAux == AuxRet("none", "none", "")

\* outcomes of send().await, status(), the content-type header and
\* bytes().await of the image request
ImageResponses ==
    {[sent |-> FALSE, success |-> FALSE, ctype |-> "none", bytes |-> FALSE],
     [sent |-> TRUE, success |-> FALSE, ctype |-> "none", bytes |-> TRUE],
     [sent |-> TRUE, success |-> TRUE, ctype |-> "image/jpeg", bytes |-> TRUE],
     [sent |-> TRUE, success |-> TRUE, ctype |-> "none", bytes |-> TRUE],
     [sent |-> TRUE, success |-> TRUE, ctype |-> "none", bytes |-> FALSE]}

\* the rest of proxy_image from the outcome of send().await on
proxy_result(r) ==
    IF ~r.sent THEN AuxRet("proxy_image", "err", "Failed to fetch image")
    ELSE IF ~r.success
    THEN AuxRet("proxy_image", "err", "Image fetch failed with status")
    ELSE IF ~r.bytes
    THEN AuxRet("proxy_image", "err", "Failed to read image bytes")
    ELSE AuxRet("proxy_image", "ok",
                IF r.ctype = "none" THEN "image/png" ELSE r.ctype)

\* outcomes of send().await, status(), text().await of the upload, and the
\* shape of the trimmed text: a bare id, nothing, a page, or JSON with an
\* error code, an id, a url, neither, or JSON that does not parse
UploadTexts ==
    {"id", "empty", "html", "json_code", "json_id", "json_url", "json_other",
     "json_bad"}
UploadResponses ==
    {[sent |-> FALSE, success |-> FALSE, text |-> "unreadable"],
     [sent |-> TRUE, success |-> TRUE, text |-> "unreadable"]}
        \cup {[sent |-> TRUE, success |-> ok, text |-> t] :
                  ok \in BOOLEAN, t \in UploadTexts}

\* the rest of upload_to_pobbin from the outcome of send().await on
upload_result(r) ==
    IF ~r.sent THEN AuxRet("upload_to_pobbin", "err", "Failed to upload")
    ELSE IF r.text = "unreadable"
    THEN AuxRet("upload_to_pobbin", "err", "text")
    ELSE IF ~r.success
    THEN AuxRet("upload_to_pobbin", "err", "pobb.in error (status)")
    ELSE IF r.text = "id" THEN AuxRet("upload_to_pobbin", "ok", "id")
    ELSE IF r.text = "json_code"
    THEN AuxRet("upload_to_pobbin", "err", "pobb.in error")
    ELSE IF r.text = "json_id" THEN AuxRet("upload_to_pobbin", "ok", "id")
    ELSE IF r.text = "json_url" THEN AuxRet("upload_to_pobbin", "ok", "url")
    ELSE AuxRet("upload_to_pobbin", "err", "unexpected response")

\* a task that has not run capture_snapshot_for_split
NoRun ==
    [pc |-> "idle", runs |-> 0, called |-> <<>>, items_result |-> "none",
     passives_result |-> "none", insert_result |-> "none", event |-> "none",
     events |-> <<>>, rows |-> 0]

\* no command runs and none has issued a request
AuxIdle ==
    /\ apc = [t \in {"proxy_image", "upload_to_pobbin"} |-> "idle"]
    /\ aurl = <<>>
    /\ aux_sent = {}
    /\ aret = NoAux
    /\ snap = [c \in Callers |-> NoRun]

\* ------------------------------------------------------------------------
\* Initial states
\* ------------------------------------------------------------------------
\* PoeApiClient::new: full bucket, empty cache; no call has started
InitApi(n) ==
    /\ tokens = MAX_TOKENS * TokenScale
    /\ elapsed = 0
    /\ lock = "free"
    /\ cache = <<>>
    /\ pc = [c \in Callers |-> "idle"]
    /\ url = [c \in Callers |-> "none"]
    /\ sleep_left = [c \in Callers |-> 0]
    /\ returned = NoReturn
    /\ acq = [c \in Callers |-> 0]
    /\ sent = [c \in Callers |-> 0]
    /\ slept = [c \in Callers |-> FALSE]
    /\ requests = <<>>
    /\ budget = n
    /\ advances = 0

\* ------------------------------------------------------------------------
\* The fetch operations get_characters / get_items / get_passive_skills
\* ------------------------------------------------------------------------
\* One of the three operations is entered: the url is built
Enter(c, u) ==
    /\ pc[c] = "idle"
    /\ budget > 0
    /\ budget' = budget - 1
    /\ pc' = [pc EXCEPT ![c] = "get_cached"]
    /\ url' = [url EXCEPT ![c] = u]
    /\ returned' = NoReturn
    /\ UNCHANGED <<tokens, elapsed, lock, cache, sleep_left, acq, sent, slept,
                   requests, advances>>
    /\ UNCHANGED <<tailVars, cmdVars, parseVars, unitVars>>

\* A task calls one of the three operations
Call(c, u) ==
    /\ Enter(c, u)
    /\ UNCHANGED auxVars

\* GetCached with single-flight suppression: a miss joins a request that is
\* already in flight for the same url
GetCached_single_flight(c) ==
    /\ pc[c] = "get_cached"
    /\ LET hit == get_cached(cache, url[c])
       IN  IF hit # <<>>
           THEN /\ pc' = [pc EXCEPT ![c] = "idle"]
                /\ url' = [url EXCEPT ![c] = "none"]
                /\ returned' = Returns(from_str(hit[1]), "cache", 0)
           ELSE /\ pc' = [pc EXCEPT ![c] =
                          IF \E o \in Callers \ {c} :
                                pc[o] = "inflight" /\ url[o] = url[c]
                          THEN "inflight" ELSE "wait"]
                /\ returned' = NoReturn
                /\ UNCHANGED url
    /\ UNCHANGED <<tokens, elapsed, lock, cache, sleep_left, acq, sent,
                   slept, requests, budget, advances>>
    /\ UNCHANGED <<tailVars, cmdVars, parseVars, auxVars, unitVars>>

\* "Check cache first": on a hit the call returns the deserialized entry,
\* on a miss it enters wait_for_rate_limit
Lookup(c) ==
    /\ pc[c] = "get_cached"
    /\ LET hit == get_cached(cache, url[c])
       IN  IF hit # <<>>
           THEN /\ pc' = [pc EXCEPT ![c] = "idle"]
                /\ url' = [url EXCEPT ![c] = "none"]
                /\ returned' = Returns(from_str(hit[1]), "cache", 0)
           ELSE /\ pc' = [pc EXCEPT ![c] = "wait"]
                /\ returned' = NoReturn
                /\ UNCHANGED url
    /\ UNCHANGED <<tokens, elapsed, lock, cache, sleep_left, acq, sent,
                   slept, requests, budget, advances>>
    /\ UNCHANGED <<tailVars, cmdVars, parseVars, unitVars>>

\* the cache lookup of a call made by a task of its own
GetCached(c) ==
    /\ Lookup(c)
    /\ UNCHANGED auxVars

\* wait_for_rate_limit: self.rate_limiter.lock().await
Lock(c) ==
    /\ pc[c] = "wait"
    /\ lock = "free"
    /\ lock' = c
    /\ pc' = [pc EXCEPT ![c] = "locked"]
    /\ returned' = NoReturn
    /\ UNCHANGED <<tokens, elapsed, cache, url, sleep_left, acq,
                   sent, slept, requests, budget, advances>>
    /\ UNCHANGED <<tailVars, cmdVars, parseVars, auxVars, unitVars>>

\* TryAcquire whose guard lives across the sleep: the lock is released only
\* when the caller returns with a token
TryAcquire_hold_lock(c) ==
    /\ pc[c] = "locked"
    /\ lock = c
    /\ LET r == try_acquire(tokens, elapsed)
       IN  /\ tokens' = r[2]
           /\ elapsed' = 0
           /\ IF r[1]
              THEN /\ pc' = [pc EXCEPT ![c] = "acquired"]
                   /\ acq' = [acq EXCEPT ![c] = @ + 1]
                   /\ slept' = [slept EXCEPT ![c] = FALSE]
                   /\ lock' = "free"
                   /\ UNCHANGED sleep_left
              ELSE /\ pc' = [pc EXCEPT ![c] = "sleep"]
                   /\ sleep_left' = [sleep_left EXCEPT ![c] =
                                        time_until_available(r[2])]
                   /\ lock' = c
                   /\ UNCHANGED <<acq, slept>>
    /\ returned' = NoReturn
    /\ UNCHANGED <<cache, url, sent, requests, budget, advances>>
    /\ UNCHANGED <<tailVars, cmdVars, parseVars, auxVars, unitVars>>

\* wait_for_rate_limit under the lock: try_acquire, then either return or
\* take time_until_available; the guard is dropped in both cases
TryAcquire(c) ==
    /\ pc[c] = "locked"
    /\ lock = c
    /\ LET r == try_acquire(tokens, elapsed)
       IN  /\ tokens' = r[2]
           /\ elapsed' = 0
           /\ IF r[1]
              THEN /\ pc' = [pc EXCEPT ![c] = "acquired"]
                   /\ acq' = [acq EXCEPT ![c] = @ + 1]
                   /\ slept' = [slept EXCEPT ![c] = FALSE]
                   /\ UNCHANGED sleep_left
              ELSE /\ pc' = [pc EXCEPT ![c] = "sleep"]
                   /\ sleep_left' = [sleep_left EXCEPT ![c] =
                                        time_until_available(r[2])]
                   /\ UNCHANGED <<acq, slept>>
    /\ lock' = "free"
    /\ returned' = NoReturn
    /\ UNCHANGED <<cache, url, sent, requests, budget, advances>>
    /\ UNCHANGED <<tailVars, cmdVars, parseVars, auxVars, unitVars>>

\* wait_for_rate_limit: tokio::time::sleep(wait_time) completes (no earlier
\* than wait_time after it started) and the loop goes round
Wake(c) ==
    /\ pc[c] = "sleep"
    /\ sleep_left[c] = 0
    /\ pc' = [pc EXCEPT ![c] = "wait"]
    /\ slept' = [slept EXCEPT ![c] = TRUE]
    /\ returned' = NoReturn
    /\ UNCHANGED <<tokens, elapsed, lock, cache, url, sleep_left,
                   acq, sent, requests, budget, advances>>
    /\ UNCHANGED <<tailVars, cmdVars, parseVars, auxVars, unitVars>>

\* self.client.get(&url).send(): the request goes out
Send(c) ==
    /\ pc[c] = "acquired"
    /\ pc' = [pc EXCEPT ![c] = "inflight"]
    /\ sent' = [sent EXCEPT ![c] = @ + 1]
    /\ requests' = Append(requests, 0)
    /\ returned' = NoReturn
    /\ UNCHANGED <<tokens, elapsed, lock, cache, url, sleep_left,
                   acq, slept, budget, advances>>
    /\ UNCHANGED <<tailVars, cmdVars, parseVars, auxVars, unitVars>>

\* Respond that stores the body before it looks at the status
Respond_cache_first(c, st, body) ==
    /\ pc[c] = "inflight"
    /\ pc' = [pc EXCEPT ![c] = "idle"]
    /\ url' = [url EXCEPT ![c] = "none"]
    /\ acq' = [acq EXCEPT ![c] = 0]
    /\ sent' = [sent EXCEPT ![c] = 0]
    /\ IF st = 0 \/ body = "unreadable"
       THEN /\ returned' = Returns("transport", "http", st)
            /\ UNCHANGED cache
       ELSE /\ cache' = cache_response(cache, url[c], body, ttl_of(url[c]))
            /\ returned' = Returns(
                   IF st = 403 THEN "private"
                   ELSE IF st = 429 THEN "rate_limited"
                   ELSE from_str(body), "http", st)
    /\ UNCHANGED <<tokens, elapsed, lock, sleep_left, slept, requests,
                   budget, advances>>
    /\ UNCHANGED <<tailVars, cmdVars, parseVars, auxVars, unitVars>>

\* The rest of the operation, from the outcome of send().await on:
\* st = 0 is a transport error; 403 and 429 are domain errors; for every
\* other status the body is read, cached and deserialized
Finish(c, st, body) ==
    /\ pc[c] = "inflight"
    /\ pc' = [pc EXCEPT ![c] = "idle"]
    /\ url' = [url EXCEPT ![c] = "none"]
    /\ acq' = [acq EXCEPT ![c] = 0]
    /\ sent' = [sent EXCEPT ![c] = 0]
    /\ IF st = 0
       THEN /\ returned' = Returns("transport", "http", st)
            /\ UNCHANGED cache
       ELSE IF st = 403
       THEN /\ returned' = Returns("private", "http", st)
            /\ UNCHANGED cache
       ELSE IF st = 429
       THEN /\ returned' = Returns("rate_limited", "http", st)
            /\ UNCHANGED cache
       ELSE IF body = "unreadable"
       THEN /\ returned' = Returns("transport", "http", st)
            /\ UNCHANGED cache
       ELSE /\ cache' = cache_response(cache, url[c], body, ttl_of(url[c]))
            /\ returned' = Returns(from_str(body), "http", st)
    /\ UNCHANGED <<tokens, elapsed, lock, sleep_left, slept, requests,
                   budget, advances>>
    /\ UNCHANGED <<tailVars, cmdVars, parseVars, unitVars>>

\* the outcome of the request of a call made by a task of its own
Respond(c, st, body) ==
    /\ Finish(c, st, body)
    /\ UNCHANGED auxVars

\* ------------------------------------------------------------------------
\* The clock
\* ------------------------------------------------------------------------
\* d ticks pass; no task is between two await points
Elapse(d) ==
    /\ \A c \in Callers : pc[c] \notin {"locked", "acquired"}
    /\ elapsed' = Min(elapsed + d, ElapsedCap(tokens))
    /\ sleep_left' = [c \in Callers |-> Max(sleep_left[c] - d, 0)]
    /\ cache' = [k \in DOMAIN cache |->
                    [cache[k] EXCEPT !.ttl_left = Max(@ - d, 0)]]
    /\ requests' = [i \in DOMAIN requests |-> Min(requests[i] + d, HistCap)]
    /\ returned' = NoReturn
    /\ UNCHANGED <<tokens, lock, pc, url, acq, sent, slept,
                   budget>>
    /\ UNCHANGED <<tailVars, cmdVars, parseVars, auxVars>>

Tick ==
    /\ Elapse(1)
    /\ UNCHANGED advances
    /\ UNCHANGED unitVars

\* the delays the cache scenario lets pass in one step
Delays == {1, ITEMS_TTL * TicksPerSec - 1, CHARACTERS_TTL * TicksPerSec - 1}

Advance(d) ==
    /\ advances < MaxAdvances
    /\ advances' = advances + 1
    /\ Elapse(d)
    /\ UNCHANGED unitVars

\* ------------------------------------------------------------------------
\* The limiter and the cache, called directly
\* ------------------------------------------------------------------------
\* limiter.try_acquire()
BucketTry ==
    /\ budget > 0
    /\ budget' = budget - 1
    /\ LET r == try_acquire(tokens, elapsed)
       IN  /\ tokens' = r[2]
           /\ elapsed' = 0
           /\ burst' = IF burst = Stale THEN Stale
                       ELSE Append(burst, IF r[1] THEN 1 ELSE 0)
    /\ wait_time' = -1
    /\ UNCHANGED <<lock, cache, pc, url, sleep_left, returned, acq, sent,
                   slept, requests, advances, stored, looked, quiet, late,
                   failed, before>>
    /\ UNCHANGED <<tailVars, cmdVars, parseVars, auxVars>>

\* limiter.time_until_available()
BucketUntil ==
    /\ wait_time' = time_until_available(tokens)
    /\ UNCHANGED <<apiVars, burst, stored, looked, quiet, late, failed,
                   before>>
    /\ UNCHANGED <<tailVars, cmdVars, parseVars, auxVars>>

\* the keys, payloads and lifetimes (seconds) of the direct cache calls
CacheKeys == {"get-characters", "get-items"}
Payloads == {"good", "bad"}
Ttls == {1, ITEMS_TTL}

\* self.cache_response(&url, &text, Duration::from_secs(d))
CachePut(u, data, d) ==
    /\ budget > 0
    /\ budget' = budget - 1
    /\ cache' = cache_response(cache, u, data, d)
    /\ stored' = [k \in DOMAIN stored \cup {u} |->
                    IF k = u
                    THEN [data |-> data, ttl |-> d * TicksPerSec, age |-> 0,
                          n |-> IF u \in DOMAIN stored
                                THEN stored[u].n + 1 ELSE 1]
                    ELSE stored[k]]
    /\ looked' = NoLookup
    /\ UNCHANGED <<tokens, elapsed, lock, pc, url, sleep_left, returned, acq,
                   sent, slept, requests, advances, burst, wait_time, quiet,
                   late, failed, before>>
    /\ UNCHANGED <<tailVars, cmdVars, parseVars, auxVars>>

\* a lookup that removes the entry it finds expired
CacheGet_evict(u) ==
    /\ looked' = [key |-> u, val |-> get_cached(cache, u)]
    /\ cache' = IF u \in DOMAIN cache /\ cache[u].ttl_left = 0
                THEN [k \in DOMAIN cache \ {u} |-> cache[k]]
                ELSE cache
    /\ UNCHANGED <<tokens, elapsed, lock, pc, url, sleep_left, returned, acq,
                   sent, slept, requests, budget, advances>>
    /\ UNCHANGED <<burst, wait_time, stored, quiet, late, failed, before>>
    /\ UNCHANGED <<tailVars, cmdVars, parseVars, auxVars>>

\* self.get_cached(&url)
CacheGet(u) ==
    /\ looked' = [key |-> u, val |-> get_cached(cache, u)]
    /\ UNCHANGED <<apiVars, burst, wait_time, stored, quiet, late,
                   failed, before>>
    /\ UNCHANGED <<tailVars, cmdVars, parseVars, auxVars>>

\* a tick passes between two direct calls on the limiter
BucketTick ==
    /\ Elapse(1)
    /\ burst' = Stale
    /\ wait_time' = -1
    /\ UNCHANGED <<advances, stored, looked, quiet, late, failed, before>>

\* the delays between direct cache calls: a tick, and each lifetime less a
\* tick and in full
CacheDelays ==
    {1} \cup {d * TicksPerSec - 1 : d \in Ttls}
        \cup {d * TicksPerSec : d \in Ttls}

\* d ticks pass between two direct calls on the cache; the time since a
\* store is counted up to one tick past the lifetime
CachePass(d) ==
    /\ advances < MaxAdvances
    /\ advances' = advances + 1
    /\ Elapse(d)
    /\ stored' = [k \in DOMAIN stored |->
                    [stored[k] EXCEPT !.age = Min(@ + d, stored[k].ttl + 1)]]
    /\ looked' = NoLookup
    /\ UNCHANGED <<burst, wait_time, quiet, late, failed, before>>

\* ------------------------------------------------------------------------
\* The commands proxy_image and upload_to_pobbin
\* ------------------------------------------------------------------------
\* proxy_image up to send(): the url is parsed and its host checked; a url
\* that passes is given to a new reqwest client, which issues a GET to the
\* host of the url, or fails at once for a scheme it does not speak
ProxyImage(u) ==
    /\ apc["proxy_image"] = "idle"
    /\ aurl' = u
    /\ IF ~allowed(u)
       THEN /\ aret' = AuxRet("proxy_image", "err",
                         IF Url_parse(u).ok
                         THEN "Only web.poecdn.com URLs are allowed"
                         ELSE "Invalid URL")
            /\ UNCHANGED <<apc, aux_sent>>
       ELSE IF Url_parse(u).scheme \notin {"https://", "http://"}
       THEN /\ aret' = AuxRet("proxy_image", "err", "Failed to fetch image")
            /\ UNCHANGED <<apc, aux_sent>>
       ELSE /\ aux_sent' = aux_sent \cup
                    {[op |-> "proxy_image", url |-> u,
                      host |-> Url_parse(u).host]}
            /\ apc' = [apc EXCEPT !["proxy_image"] = "sent"]
            /\ aret' = NoAux
    /\ UNCHANGED snap
    /\ UNCHANGED <<apiVars, tailVars, cmdVars, parseVars, unitVars>>

\* proxy_image from the outcome of send().await on
ProxyRespond(r) ==
    /\ apc["proxy_image"] = "sent"
    /\ apc' = [apc EXCEPT !["proxy_image"] = "idle"]
    /\ aret' = proxy_result(r)
    /\ UNCHANGED <<aurl, aux_sent, snap>>
    /\ UNCHANGED <<apiVars, tailVars, cmdVars, parseVars, unitVars>>

\* upload_to_pobbin that waits for the rate limiter of the API client first
UploadToPobbin_limited ==
    /\ apc["upload_to_pobbin"] = "idle"
    /\ try_acquire(tokens, elapsed)[1]
    /\ tokens' = try_acquire(tokens, elapsed)[2]
    /\ elapsed' = 0
    /\ apc' = [apc EXCEPT !["upload_to_pobbin"] = "sent"]
    /\ aux_sent' = aux_sent \cup
            {[op |-> "upload_to_pobbin",
              url |-> <<"https://", "pobb.in", "/pob">>, host |-> "pobb.in"]}
    /\ aret' = NoAux
    /\ UNCHANGED <<aurl, snap>>
    /\ UNCHANGED <<lock, cache, pc, url, sleep_left, returned, acq, sent,
                   slept, requests, budget, advances>>
    /\ UNCHANGED <<tailVars, cmdVars, parseVars, unitVars>>

\* upload_to_pobbin up to send(): a new reqwest client POSTs the code to
\* https://pobb.in/pob
UploadToPobbin ==
    /\ apc["upload_to_pobbin"] = "idle"
    /\ apc' = [apc EXCEPT !["upload_to_pobbin"] = "sent"]
    /\ aux_sent' = aux_sent \cup
            {[op |-> "upload_to_pobbin",
              url |-> <<"https://", "pobb.in", "/pob">>, host |-> "pobb.in"]}
    /\ aret' = NoAux
    /\ UNCHANGED <<aurl, snap>>
    /\ UNCHANGED <<apiVars, tailVars, cmdVars, parseVars, unitVars>>

\* upload_to_pobbin from the outcome of send().await on
UploadRespond(r) ==
    /\ apc["upload_to_pobbin"] = "sent"
    /\ apc' = [apc EXCEPT !["upload_to_pobbin"] = "idle"]
    /\ aret' = upload_result(r)
    /\ UNCHANGED <<aurl, aux_sent, snap>>
    /\ UNCHANGED <<apiVars, tailVars, cmdVars, parseVars, unitVars>>

\* ------------------------------------------------------------------------
\* capture_snapshot_for_split
\* ------------------------------------------------------------------------
\* Each task runs the function from its call to its return; the fetch
\* operations it calls are the ones above, run by the same task.  The code
\* from the return of an awaited call to the next call or to the end of the
\* function runs without suspension.

\* the task goes on after client.get_items or client.get_passive_skills has
\* returned result r: Ok lets it proceed, to the update of the run's class
\* info and the second fetch or to the insert; Err takes it to the emit of
\* snapshot-failed
after_fetch(t, r) ==
    IF t.pc = "items"
    THEN IF r = "ok"
         THEN [t EXCEPT !.pc = "update", !.items_result = r]
         ELSE [t EXCEPT !.pc = "emit", !.items_result = r,
                        !.event = "snapshot-failed"]
    ELSE IF r = "ok"
         THEN [t EXCEPT !.pc = "insert", !.passives_result = r]
         ELSE [t EXCEPT !.pc = "emit", !.passives_result = r,
                        !.event = "snapshot-failed"]

\* a run of capture_snapshot_for_split begins: client.get_items is called
SnapItems(c) ==
    /\ snap[c].pc = "idle"
    /\ snap[c].runs < MaxRuns
    /\ Enter(c, "get-items")
    /\ snap' = [snap EXCEPT ![c] =
                    [NoRun EXCEPT !.pc = "items", !.runs = snap[c].runs + 1,
                                  !.called = <<"get-items">>,
                                  !.rows = snap[c].rows]]
    /\ UNCHANGED <<apc, aurl, aux_sent, aret>>

\* the cache lookup of the fetch the task is in; a hit returns to the task
SnapCached(c) ==
    /\ snap[c].pc \in {"items", "passives"}
    /\ Lookup(c)
    /\ snap' = IF returned' = NoReturn THEN snap
               ELSE [snap EXCEPT ![c] = after_fetch(@, returned'.kind)]
    /\ UNCHANGED <<apc, aurl, aux_sent, aret>>

\* the request of the fetch the task is in is answered, and the fetch
\* returns to the task
SnapRespond(c, st, body) ==
    /\ snap[c].pc \in {"items", "passives"}
    /\ Finish(c, st, body)
    /\ snap' = [snap EXCEPT ![c] = after_fetch(@, returned'.kind)]
    /\ UNCHANGED <<apc, aurl, aux_sent, aret>>

\* Run::update_class_info, its result ignored, and the call of
\* client.get_passive_skills
SnapPassives(c) ==
    /\ snap[c].pc = "update"
    /\ Enter(c, "get-passive-skills")
    /\ snap' = [snap EXCEPT ![c].pc = "passives",
                            ![c].called = Append(@, "get-passive-skills")]
    /\ UNCHANGED <<apc, aurl, aux_sent, aret>>

\* SnapInsert that reports only success
SnapInsert_silent(c, ok) ==
    /\ snap[c].pc = "insert"
    /\ snap' = [snap EXCEPT ![c] =
                    IF ok
                    THEN [@ EXCEPT !.pc = "emit", !.insert_result = "ok",
                                   !.rows = @ + 1,
                                   !.event = "snapshot-complete"]
                    ELSE [@ EXCEPT !.pc = "idle", !.insert_result = "err"]]
    /\ UNCHANGED <<apc, aurl, aux_sent, aret>>
    /\ UNCHANGED <<apiVars, tailVars, cmdVars, parseVars, unitVars>>

\* Snapshot::insert; its outcome decides the terminal event the task goes
\* on to emit.  ok: the row was inserted.
SnapInsert(c, ok) ==
    /\ snap[c].pc = "insert"
    /\ snap' = [snap EXCEPT ![c] =
                    IF ok
                    THEN [@ EXCEPT !.pc = "emit", !.insert_result = "ok",
                                   !.rows = @ + 1,
                                   !.event = "snapshot-complete"]
                    ELSE [@ EXCEPT !.pc = "emit", !.insert_result = "err",
                                   !.event = "snapshot-failed"]]
    /\ UNCHANGED <<apc, aurl, aux_sent, aret>>
    /\ UNCHANGED <<apiVars, tailVars, cmdVars, parseVars, unitVars>>

\* app_handle.emit of the terminal event returns, and the function with it
SnapEmit(c) ==
    /\ snap[c].pc = "emit"
    /\ snap' = [snap EXCEPT ![c] =
                    [@ EXCEPT !.pc = "idle", !.event = "none",
                              !.events = Append(@, snap[c].event)]]
    /\ UNCHANGED <<apc, aurl, aux_sent, aret>>
    /\ UNCHANGED <<apiVars, tailVars, cmdVars, parseVars, unitVars>>

\* ------------------------------------------------------------------------
\* The log tailer: LogWatcher::start / stop / watch_loop, and the game that
\* writes the file
\* ------------------------------------------------------------------------
\* LogWatcher::new for every watcher; the file holds one line of history
TailIdle ==
    /\ file = ZoneLine
    /\ rest = <<>>
    /\ lines_left = MaxLines
    /\ tpc = [w \in Watchers |-> "none"]
    /\ file_position = [w \in Watchers |-> 0]
    /\ start_len = [w \in Watchers |-> 0]
    /\ watcher = [w \in Watchers |-> FALSE]
    /\ stop_tx = [w \in Watchers |-> FALSE]
    /\ stop_chan = [w \in Watchers |-> "closed"]
    /\ notif = [w \in Watchers |-> 0]
    /\ pending = [w \in Watchers |-> <<>>]
    /\ orphans = [w \in Watchers |-> <<>>]
    /\ starting = [w \in Watchers |-> "no"]
    /\ emitted = <<>>
    /\ pass_result = [w \in Watchers |-> "none"]

\* no start_log_watcher runs, the global slot is empty, the file exists
CmdIdle ==
    /\ exists = TRUE
    /\ slot = "none"
    /\ cpc = [k \in Cmds |-> "idle"]
    /\ cw = [k \in Cmds |-> "none"]

\* parse_line has not been called
ParseIdle ==
    /\ line = <<>>
    /\ parsed = Unparsed

NoPass == [w \in Watchers |-> "none"]

\* the positions of a loop thread that runs
Running == {"check_stop", "recv", "emit"}

\* the state of LogWatcher w, of the loop thread its channels lead to and of
\* the loop threads it has left behind
Obj(w) ==
    [file_position |-> file_position[w], start_len |-> start_len[w],
     watcher |-> watcher[w], stop_tx |-> stop_tx[w],
     stop_chan |-> stop_chan[w], notif |-> notif[w], tpc |-> tpc[w],
     pending |-> pending[w], orphans |-> orphans[w],
     starting |-> starting[w]]

\* LogWatcher w and its loop threads become o
Put(w, o) ==
    /\ file_position' = [file_position EXCEPT ![w] = o.file_position]
    /\ start_len' = [start_len EXCEPT ![w] = o.start_len]
    /\ watcher' = [watcher EXCEPT ![w] = o.watcher]
    /\ stop_tx' = [stop_tx EXCEPT ![w] = o.stop_tx]
    /\ stop_chan' = [stop_chan EXCEPT ![w] = o.stop_chan]
    /\ notif' = [notif EXCEPT ![w] = o.notif]
    /\ tpc' = [tpc EXCEPT ![w] = o.tpc]
    /\ pending' = [pending EXCEPT ![w] = o.pending]
    /\ orphans' = [orphans EXCEPT ![w] = o.orphans]
    /\ starting' = [starting EXCEPT ![w] = o.starting]

\* what Put sets
objVars == <<tpc, file_position, start_len, watcher, stop_tx, stop_chan,
             notif, pending, orphans, starting>>

\* LogWatcher::start, std::fs::metadata(&log_path).  meta_ok: the metadata
\* of the file can be read; start then holds the length the file has now.
start_meta(o, meta_ok) ==
    [o EXCEPT !.start_len = IF exists THEN Len(file) ELSE -1,
              !.starting = IF meta_ok THEN "len" ELSE "no_len"]

\* LogWatcher::start, from the lock of the cursor to the creation of the
\* watcher: the cursor is set to the length that was read, if one was, and
\* the new stop sender replaces the one the object held: a thread that was
\* listening to the old one has no sender left.
start_init(o) ==
    [o EXCEPT !.file_position = IF o.starting = "len" THEN o.start_len ELSE @,
              !.stop_tx = TRUE,
              !.stop_chan = IF @ = "empty" THEN "closed" ELSE @,
              !.starting = "watch"]

\* the loop thread of o as it goes on when the object has a new one: what
\* its channels hold stays, nothing is added to them
left_behind(o) ==
    [tpc |-> o.tpc, stop_chan |-> o.stop_chan, notif |-> o.notif,
     pending |-> o.pending]

\* the rest of start that spawns the loop thread before it creates the
\* watcher
start_spawn_first(o, watch_ok) ==
    [o EXCEPT !.watcher = IF watch_ok THEN TRUE ELSE @,
              !.stop_chan = IF watch_ok THEN "empty" ELSE "closed",
              !.notif = IF watch_ok THEN 0 ELSE @,
              !.tpc = "check_stop",
              !.pending = <<>>,
              !.orphans = IF o.tpc \in Running
                          THEN Append(@, left_behind(o)) ELSE @,
              !.starting = "no"]

\* LogWatcher::start, from the creation of the watcher on.  watch_ok: the
\* directory watcher can be created and subscribed.  When it cannot, start
\* returns with the new receivers dropped, no thread spawned and the watcher
\* field as it was; when it can, the watcher the object held is dropped, and
\* a thread that ran for the object goes on without it.
start_watch(o, watch_ok) ==
    IF watch_ok
    THEN [o EXCEPT !.watcher = TRUE,
                   !.stop_chan = "empty",
                   !.notif = 0,
                   !.tpc = "check_stop",
                   !.pending = <<>>,
                   !.orphans = IF o.tpc \in Running
                               THEN Append(@, left_behind(o)) ELSE @,
                   !.starting = "no"]
    ELSE [o EXCEPT !.starting = "no"]

\* stop that leaves an empty, closed channel behind when it has no sender
stop_reset(o) ==
    [o EXCEPT !.stop_chan = IF o.stop_tx /\ @ = "empty" THEN "signal"
                            ELSE "closed",
              !.stop_tx = FALSE,
              !.watcher = FALSE]

\* stop that drops the sender without sending
stop_silent(o) ==
    [o EXCEPT !.stop_chan = IF @ = "empty" THEN "closed" ELSE @,
              !.stop_tx = FALSE,
              !.watcher = FALSE]

\* LogWatcher::stop: the sender is taken and the signal sent, the watcher
\* is released
stop(o) ==
    [o EXCEPT !.stop_chan = IF o.stop_tx /\ @ = "empty" THEN "signal" ELSE @,
              !.stop_tx = FALSE,
              !.watcher = FALSE]

\* a LogWatcher goes out of scope or is overwritten: its sender and its
\* watcher are dropped, no signal is sent
drop(o) ==
    [o EXCEPT !.stop_chan = IF @ = "empty" THEN "closed" ELSE @,
              !.stop_tx = FALSE,
              !.watcher = FALSE]

\* a change in the watched directory reaches every subscribed watcher;
\* notifications beyond MaxNotif coalesce with the ones that wait
Notified ==
    [w \in Watchers |->
        IF watcher[w] THEN Min(notif[w] + 1, MaxNotif) ELSE notif[w]]

\* the game starts a line and writes its first n tokens in one write
Write(l, n) ==
    /\ exists
    /\ rest = <<>>
    /\ lines_left > 0
    /\ lines_left' = lines_left - 1
    /\ file' = file \o SubSeq(l, 1, n)
    /\ rest' = SubSeq(l, n + 1, Len(l))
    /\ notif' = Notified
    /\ pass_result' = NoPass
    /\ UNCHANGED <<tpc, file_position, start_len, watcher, stop_tx, stop_chan,
                   pending, orphans, starting, emitted>>
    /\ UNCHANGED <<apiVars, cmdVars, parseVars, auxVars, unitVars>>

\* the game writes a whole line; the notification joins those that wait
\* when the channel holds no more than MaxNotif of them
WriteLine(l) ==
    /\ \A w \in Watchers : notif[w] <= MaxNotif
    /\ Write(l, Len(l))

\* the game writes what is left of its line
WriteRest ==
    /\ exists
    /\ rest # <<>>
    /\ file' = file \o rest
    /\ rest' = <<>>
    /\ notif' = Notified
    /\ pass_result' = NoPass
    /\ UNCHANGED <<lines_left, tpc, file_position, start_len, watcher, stop_tx,
                   stop_chan, pending, orphans, starting, emitted>>
    /\ UNCHANGED <<apiVars, cmdVars, parseVars, auxVars, unitVars>>

\* another change in the parent directory, the log file being as it was
Notify(w) ==
    /\ watcher[w]
    /\ notif[w] < MaxNotif
    /\ notif' = [notif EXCEPT ![w] = notif[w] + 1]
    /\ pass_result' = NoPass
    /\ UNCHANGED <<file, rest, lines_left, tpc, file_position, start_len,
                   watcher, stop_tx, stop_chan, pending, orphans, starting,
                   emitted>>
    /\ UNCHANGED <<apiVars, cmdVars, parseVars, auxVars, unitVars>>

\* changes follow one another faster than the thread receives them: one
\* more notification waits behind those the channel already holds
Flood(w) ==
    /\ watcher[w]
    /\ notif[w] >= MaxNotif
    /\ notif[w] < MaxPending
    /\ notif' = [notif EXCEPT ![w] = notif[w] + 1]
    /\ pass_result' = NoPass
    /\ UNCHANGED <<file, rest, lines_left, tpc, file_position, start_len,
                   watcher, stop_tx, stop_chan, pending, orphans, starting,
                   emitted>>
    /\ UNCHANGED <<apiVars, cmdVars, parseVars, auxVars, unitVars>>

\* LogWatcher::start is called on w and reads the metadata of the file.
\* start and stop take the object exclusively, so none of them begins while
\* a start is under way; the threads an object leaves behind are counted up
\* to MaxOrphans.
Start(w, meta_ok) ==
    /\ starting[w] = "no"
    /\ \A k \in Cmds : cw[k] # w
    /\ meta_ok => exists
    /\ tpc[w] \in Running => Len(orphans[w]) < MaxOrphans
    /\ Put(w, start_meta(Obj(w), meta_ok))
    /\ pass_result' = NoPass
    /\ UNCHANGED <<file, rest, lines_left, emitted>>
    /\ UNCHANGED <<apiVars, cmdVars, parseVars, auxVars, unitVars>>

\* LogWatcher::start called by a host that starts an object only while it
\* runs no thread and watches nothing, as start_log_watcher does, which
\* makes a new object for every start
FirstStart(w, meta_ok) ==
    /\ tpc[w] = "none"
    /\ ~watcher[w]
    /\ Start(w, meta_ok)

\* LogWatcher::start goes on, of the object of a host or of a command: it
\* takes the mutex of the cursor, which a read pass holds from its seek to
\* its end, stores the length it has read and makes the stop channel
StartStore(w) ==
    /\ starting[w] \in {"len", "no_len"}
    /\ Put(w, start_init(Obj(w)))
    /\ pass_result' = NoPass
    /\ UNCHANGED <<file, rest, lines_left, emitted>>
    /\ UNCHANGED <<apiVars, cmdVars, parseVars, auxVars, unitVars>>

\* LogWatcher::start goes on: the watcher is created and subscribed, the
\* loop thread is spawned, and start returns.  A change that falls between
\* the subscription and the spawn waits in the new channel as one that
\* follows this step does; on a restart the watcher of the running thread
\* is released here, at self.watcher = Some(watcher).
StartWatch(w, watch_ok) ==
    /\ starting[w] = "watch"
    /\ \A k \in Cmds : cw[k] # w
    /\ Put(w, start_watch(Obj(w), watch_ok))
    /\ pass_result' = NoPass
    /\ UNCHANGED <<file, rest, lines_left, emitted>>
    /\ UNCHANGED <<apiVars, cmdVars, parseVars, auxVars, unitVars>>

\* LogWatcher::stop
Stop(w) ==
    /\ starting[w] = "no"
    /\ Put(w, stop(Obj(w)))
    /\ pass_result' = NoPass
    /\ UNCHANGED <<file, rest, lines_left, emitted>>
    /\ UNCHANGED <<apiVars, cmdVars, parseVars, auxVars, unitVars>>

\* watch_loop: stop_rx.try_recv()
CheckStop(w) ==
    /\ tpc[w] = "check_stop"
    /\ IF stop_chan[w] = "signal"
       THEN /\ tpc' = [tpc EXCEPT ![w] = "exited"]
            /\ stop_chan' = [stop_chan EXCEPT ![w] = "closed"]
       ELSE /\ tpc' = [tpc EXCEPT ![w] = "recv"]
            /\ UNCHANGED stop_chan
    /\ pass_result' = NoPass
    /\ UNCHANGED <<file, rest, lines_left, file_position, start_len, watcher,
                   stop_tx, notif, pending, orphans, starting, emitted>>
    /\ UNCHANGED <<apiVars, cmdVars, parseVars, auxVars, unitVars>>

\* watch_loop: rx.recv_timeout returns no event
RecvTimeout(w) ==
    /\ tpc[w] = "recv"
    /\ notif[w] = 0
    /\ tpc' = [tpc EXCEPT ![w] = "check_stop"]
    /\ pass_result' = NoPass
    /\ UNCHANGED <<file, rest, lines_left, file_position, start_len, watcher,
                   stop_tx, stop_chan, notif, pending, orphans, starting,
                   emitted>>
    /\ UNCHANGED <<apiVars, cmdVars, parseVars, auxVars, unitVars>>

\* where the thread goes with the events of a pass: to the emit loop, or
\* back to the top of watch_loop when there are none
after_pass(events) == IF events = <<>> THEN "check_stop" ELSE "emit"

\* a loop that ends when a read pass fails
ReadPass_fatal(w, io_ok) ==
    /\ tpc[w] = "recv"
    /\ notif[w] > 0
    /\ io_ok => exists
    /\ notif' = [notif EXCEPT ![w] = @ - 1]
    /\ IF io_ok /\ read_new_lines(file, file_position[w], w).ok
       THEN LET r == read_new_lines(file, file_position[w], w) IN
            /\ tpc' = [tpc EXCEPT ![w] = after_pass(r.events)]
            /\ file_position' = [file_position EXCEPT ![w] = r.pos]
            /\ pending' = [pending EXCEPT ![w] = r.events]
            /\ pass_result' = [NoPass EXCEPT ![w] = "ok"]
       ELSE /\ tpc' = [tpc EXCEPT ![w] = "exited"]
            /\ pass_result' = [NoPass EXCEPT ![w] = "err"]
            /\ UNCHANGED <<file_position, pending>>
    /\ UNCHANGED <<file, rest, lines_left, start_len, watcher, stop_tx,
                   stop_chan, orphans, starting, emitted>>
    /\ UNCHANGED <<apiVars, cmdVars, parseVars, auxVars, unitVars>>

\* a read pass that reads the file from its beginning
ReadPass_rewind(w, io_ok) ==
    /\ tpc[w] = "recv"
    /\ notif[w] > 0
    /\ io_ok => exists
    /\ notif' = [notif EXCEPT ![w] = @ - 1]
    /\ IF io_ok /\ read_new_lines(file, 0, w).ok
       THEN LET r == read_new_lines(file, 0, w) IN
            /\ tpc' = [tpc EXCEPT ![w] = after_pass(r.events)]
            /\ file_position' = [file_position EXCEPT ![w] = r.pos]
            /\ pending' = [pending EXCEPT ![w] = r.events]
            /\ pass_result' = [NoPass EXCEPT ![w] = "ok"]
       ELSE /\ tpc' = [tpc EXCEPT ![w] = "check_stop"]
            /\ pass_result' = [NoPass EXCEPT ![w] = "err"]
            /\ UNCHANGED <<file_position, pending>>
    /\ UNCHANGED <<file, rest, lines_left, start_len, watcher, stop_tx,
                   stop_chan, orphans, starting, emitted>>
    /\ UNCHANGED <<apiVars, cmdVars, parseVars, auxVars, unitVars>>

\* a read pass that takes the length of the file as its new cursor before
\* it reads, and keeps it when the read fails
Pass_cursor_first(w, io_ok) ==
    /\ tpc[w] = "recv"
    /\ notif[w] > 0
    /\ io_ok => exists
    /\ notif' = [notif EXCEPT ![w] = @ - 1]
    /\ file_position' = [file_position EXCEPT ![w] = Max(@, Len(file))]
    /\ IF io_ok /\ read_new_lines(file, file_position[w], w).ok
       THEN LET r == read_new_lines(file, file_position[w], w) IN
            /\ tpc' = [tpc EXCEPT ![w] = after_pass(r.events)]
            /\ pending' = [pending EXCEPT ![w] = r.events]
            /\ pass_result' = [NoPass EXCEPT ![w] = "ok"]
       ELSE /\ tpc' = [tpc EXCEPT ![w] = "check_stop"]
            /\ pass_result' = [NoPass EXCEPT ![w] = "err"]
            /\ UNCHANGED pending
    /\ UNCHANGED <<file, rest, lines_left, start_len, watcher, stop_tx,
                   stop_chan, orphans, starting, emitted>>
    /\ UNCHANGED <<apiVars, cmdVars, parseVars, auxVars>>

\* a loop that receives again after a read pass that found nothing to
\* emit, and looks at the stop channel only after an emit or a receive that
\* has timed out
Pass_drain(w, io_ok) ==
    /\ tpc[w] = "recv"
    /\ notif[w] > 0
    /\ io_ok => exists
    /\ notif' = [notif EXCEPT ![w] = @ - 1]
    /\ IF io_ok /\ read_new_lines(file, file_position[w], w).ok
       THEN LET r == read_new_lines(file, file_position[w], w) IN
            /\ tpc' = [tpc EXCEPT ![w] =
                          IF r.events = <<>> THEN "recv" ELSE "emit"]
            /\ file_position' = [file_position EXCEPT ![w] = r.pos]
            /\ pending' = [pending EXCEPT ![w] = r.events]
            /\ pass_result' = [NoPass EXCEPT ![w] = "ok"]
       ELSE /\ tpc' = [tpc EXCEPT ![w] = "recv"]
            /\ pass_result' = [NoPass EXCEPT ![w] = "err"]
            /\ UNCHANGED <<file_position, pending>>
    /\ UNCHANGED <<file, rest, lines_left, start_len, watcher, stop_tx,
                   stop_chan, orphans, starting, emitted>>
    /\ UNCHANGED <<apiVars, cmdVars, parseVars, auxVars>>

\* watch_loop: rx.recv_timeout returns an event and read_new_lines runs: it
\* stores the cursor and returns the events, which the thread has still to
\* emit.  io_ok: the file can be opened, sought and read.
Pass(w, io_ok) ==
    /\ tpc[w] = "recv"
    /\ notif[w] > 0
    /\ io_ok => exists
    /\ notif' = [notif EXCEPT ![w] = @ - 1]
    /\ IF io_ok /\ read_new_lines(file, file_position[w], w).ok
       THEN LET r == read_new_lines(file, file_position[w], w) IN
            /\ tpc' = [tpc EXCEPT ![w] = after_pass(r.events)]
            /\ file_position' = [file_position EXCEPT ![w] = r.pos]
            /\ pending' = [pending EXCEPT ![w] = r.events]
            /\ pass_result' = [NoPass EXCEPT ![w] = "ok"]
       ELSE /\ tpc' = [tpc EXCEPT ![w] = "check_stop"]
            /\ pass_result' = [NoPass EXCEPT ![w] = "err"]
            /\ UNCHANGED <<file_position, pending>>
    /\ UNCHANGED <<file, rest, lines_left, start_len, watcher, stop_tx,
                   stop_chan, orphans, starting, emitted>>
    /\ UNCHANGED <<apiVars, cmdVars, parseVars, auxVars>>

\* the read pass of watch_loop
ReadPass(w, io_ok) ==
    /\ Pass(w, io_ok)
    /\ UNCHANGED unitVars

\* watch_loop: app_handle.emit of the next event of the pass; after the
\* last one the thread is back at the top of the loop
Emit(w) ==
    /\ tpc[w] = "emit"
    /\ emitted' = Append(emitted, Head(pending[w]))
    /\ pending' = [pending EXCEPT ![w] = Tail(@)]
    /\ tpc' = [tpc EXCEPT ![w] = after_pass(Tail(pending[w]))]
    /\ pass_result' = NoPass
    /\ UNCHANGED <<file, rest, lines_left, file_position, start_len, watcher,
                   stop_tx, stop_chan, notif, orphans, starting>>
    /\ UNCHANGED <<apiVars, cmdVars, parseVars, auxVars, unitVars>>

\* a read pass that succeeds, counted: one more pass at this file length,
\* or the first one at a new length
QuietPass(w) ==
    /\ Pass(w, TRUE)
    /\ pass_result'[w] = "ok"
    /\ quiet' = [quiet EXCEPT ![w] =
                    IF @.len = Len(file)
                    THEN [len |-> @.len, n |-> Min(@.n + 1, MaxQuiet)]
                    ELSE [len |-> Len(file), n |-> 1]]
    /\ UNCHANGED <<burst, wait_time, stored, looked, late, failed, before>>

\* a read pass, counted when the stop signal had been sent before it
LatePass(w, io_ok) ==
    /\ Pass(w, io_ok)
    /\ late' = [late EXCEPT ![w] =
                    IF stop_chan[w] = "signal" THEN @ + 1 ELSE @]
    /\ UNCHANGED <<burst, wait_time, stored, looked, quiet, failed, before>>

\* a read pass, recorded when it fails and marked when it succeeds after a
\* failure
RetryPass(w, io_ok) ==
    /\ Pass(w, io_ok)
    /\ failed' = [failed EXCEPT ![w] =
                    IF pass_result'[w] = "err"
                    THEN [pos |-> file_position[w],
                          unread |-> Len(file) - file_position[w],
                          seen |-> Len(emitted), redone |-> FALSE]
                    ELSE IF @.pos # -1 THEN [@ EXCEPT !.redone = TRUE]
                    ELSE @]
    /\ UNCHANGED <<burst, wait_time, stored, looked, quiet, late, before>>

\* ------------------------------------------------------------------------
\* Loop threads an object has left behind: start was called again while the
\* thread ran.  Such a thread shares the cursor of the object; its stop
\* channel has no sender and its notification channel no watcher, and both
\* still hold what was sent before.
\* ------------------------------------------------------------------------
\* the sequence s without its i-th element
Without(s, i) == SubSeq(s, 1, i - 1) \o SubSeq(s, i + 1, Len(s))

\* thread i of those w has left behind becomes t
PutOrphan(w, i, t) ==
    orphans' = [orphans EXCEPT ![w] = [@ EXCEPT ![i] = t]]

\* watch_loop of a thread left behind: stop_rx.try_recv(); a signal sent
\* before the restart ends the thread
OrphanCheckStop(w, i) ==
    /\ i \in DOMAIN orphans[w]
    /\ orphans[w][i].tpc = "check_stop"
    /\ IF orphans[w][i].stop_chan = "signal"
       THEN orphans' = [orphans EXCEPT ![w] = Without(@, i)]
       ELSE PutOrphan(w, i, [orphans[w][i] EXCEPT !.tpc = "recv"])
    /\ pass_result' = NoPass
    /\ UNCHANGED <<file, rest, lines_left, tpc, file_position, start_len,
                   watcher, stop_tx, stop_chan, notif, pending, starting,
                   emitted>>
    /\ UNCHANGED <<apiVars, cmdVars, parseVars, auxVars, unitVars>>

\* watch_loop of a thread left behind: rx.recv_timeout returns no event
\* (the channel is empty and disconnected)
OrphanRecv(w, i) ==
    /\ i \in DOMAIN orphans[w]
    /\ orphans[w][i].tpc = "recv"
    /\ orphans[w][i].notif = 0
    /\ PutOrphan(w, i, [orphans[w][i] EXCEPT !.tpc = "check_stop"])
    /\ pass_result' = NoPass
    /\ UNCHANGED <<file, rest, lines_left, tpc, file_position, start_len,
                   watcher, stop_tx, stop_chan, notif, pending, starting,
                   emitted>>
    /\ UNCHANGED <<apiVars, cmdVars, parseVars, auxVars, unitVars>>

\* watch_loop of a thread left behind: a notification that waited is
\* received and read_new_lines runs on the cursor of the object
OrphanPass(w, i, io_ok) ==
    /\ i \in DOMAIN orphans[w]
    /\ orphans[w][i].tpc = "recv"
    /\ orphans[w][i].notif > 0
    /\ io_ok => exists
    /\ IF io_ok /\ read_new_lines(file, file_position[w], w).ok
       THEN LET r == read_new_lines(file, file_position[w], w) IN
            /\ PutOrphan(w, i, [orphans[w][i] EXCEPT
                                    !.notif = @ - 1,
                                    !.tpc = after_pass(r.events),
                                    !.pending = r.events])
            /\ file_position' = [file_position EXCEPT ![w] = r.pos]
            /\ pass_result' = [NoPass EXCEPT ![w] = "ok"]
       ELSE /\ PutOrphan(w, i, [orphans[w][i] EXCEPT
                                    !.notif = @ - 1,
                                    !.tpc = "check_stop"])
            /\ pass_result' = [NoPass EXCEPT ![w] = "err"]
            /\ UNCHANGED file_position
    /\ UNCHANGED <<file, rest, lines_left, tpc, start_len, watcher, stop_tx,
                   stop_chan, notif, pending, starting, emitted>>
    /\ UNCHANGED <<apiVars, cmdVars, parseVars, auxVars, unitVars>>

\* watch_loop of a thread left behind: app_handle.emit of the next event
OrphanEmit(w, i) ==
    /\ i \in DOMAIN orphans[w]
    /\ orphans[w][i].tpc = "emit"
    /\ emitted' = Append(emitted, Head(orphans[w][i].pending))
    /\ PutOrphan(w, i, [orphans[w][i] EXCEPT
                            !.pending = Tail(@),
                            !.tpc = after_pass(Tail(orphans[w][i].pending))])
    /\ pass_result' = NoPass
    /\ UNCHANGED <<file, rest, lines_left, tpc, file_position, start_len,
                   watcher, stop_tx, stop_chan, notif, pending, starting>>
    /\ UNCHANGED <<apiVars, cmdVars, parseVars, auxVars, unitVars>>

\* ------------------------------------------------------------------------
\* The commands start_log_watcher / stop_log_watcher and the global slot
\* ------------------------------------------------------------------------
\* LogWatcher::new
NewObj ==
    [file_position |-> 0, start_len |-> 0, watcher |-> FALSE,
     stop_tx |-> FALSE, stop_chan |-> "closed", notif |-> 0, tpc |-> "none",
     pending |-> <<>>, orphans |-> <<>>, starting |-> "no"]

\* a watcher no thread runs for and nobody holds
Fresh(w) ==
    /\ tpc[w] = "none"
    /\ slot # w
    /\ \A k \in Cmds : cw[k] # w

\* start_log_watcher: path.exists(); a missing file is reported at once
Check(k) ==
    /\ cpc[k] = "idle"
    /\ cpc' = [cpc EXCEPT ![k] = IF exists THEN "checked" ELSE "err"]
    /\ pass_result' = NoPass
    /\ UNCHANGED <<exists, slot, cw>>
    /\ UNCHANGED <<file, rest, lines_left, objVars, emitted>>
    /\ UNCHANGED <<apiVars, parseVars, auxVars>>

\* the first step of start_log_watcher
CmdCheck(k) ==
    /\ Check(k)
    /\ UNCHANGED unitVars

\* start_log_watcher is called while no other invocation runs; the tailer
\* the slot holds at that moment is recorded
Invoke(k) ==
    /\ \A j \in Cmds \ {k} : cpc[j] \in {"idle", "ok", "err"}
    /\ Check(k)
    /\ before' = [before EXCEPT ![k] =
                    IF slot # "none" /\ watcher[slot]
                          /\ tpc[slot] \in Running
                    THEN [w |-> slot, pos |-> file_position[slot]]
                    ELSE NoTailer]
    /\ UNCHANGED <<burst, wait_time, stored, looked, quiet, late, failed>>

\* start_log_watcher: "stop any existing watcher first", under the slot's lock
CmdStopOld(k) ==
    /\ cpc[k] = "checked"
    /\ cpc' = [cpc EXCEPT ![k] = "cleared"]
    /\ IF slot # "none"
       THEN Put(slot, drop(stop(Obj(slot))))
       ELSE UNCHANGED objVars
    /\ slot' = "none"
    /\ pass_result' = NoPass
    /\ UNCHANGED <<exists, cw>>
    /\ UNCHANGED <<file, rest, lines_left, emitted>>
    /\ UNCHANGED <<apiVars, parseVars, auxVars, unitVars>>

\* start_log_watcher: LogWatcher::new(path) and the call of
\* watcher.start(app_handle), which reads the metadata of the file
CmdNew(k, meta_ok) ==
    /\ cpc[k] = "cleared"
    /\ \E w \in Watchers : Fresh(w)
    /\ meta_ok => exists
    /\ LET w == CHOOSE v \in Watchers : Fresh(v)
       IN  /\ Put(w, start_meta(NewObj, meta_ok))
           /\ cw' = [cw EXCEPT ![k] = w]
    /\ cpc' = [cpc EXCEPT ![k] = "starting"]
    /\ pass_result' = NoPass
    /\ UNCHANGED <<exists, slot>>
    /\ UNCHANGED <<file, rest, lines_left, emitted>>
    /\ UNCHANGED <<apiVars, parseVars, auxVars, unitVars>>

\* start_log_watcher: watcher.start(app_handle)? goes on and returns; on an
\* error the new watcher is dropped and the command returns
CmdStartNew(k, watch_ok) ==
    /\ cpc[k] = "starting"
    /\ starting[cw[k]] = "watch"
    /\ LET w == cw[k]
           o == start_watch(Obj(w), watch_ok)
       IN  IF watch_ok
           THEN /\ Put(w, o)
                /\ cpc' = [cpc EXCEPT ![k] = "started"]
                /\ UNCHANGED cw
           ELSE /\ Put(w, drop(o))
                /\ cpc' = [cpc EXCEPT ![k] = "err"]
                /\ cw' = [cw EXCEPT ![k] = "none"]
    /\ pass_result' = NoPass
    /\ UNCHANGED <<exists, slot>>
    /\ UNCHANGED <<file, rest, lines_left, emitted>>
    /\ UNCHANGED <<apiVars, parseVars, auxVars, unitVars>>

\* start_log_watcher: *guard = Some(watcher); what the slot held is dropped
CmdStore(k) ==
    /\ cpc[k] = "started"
    /\ cpc' = [cpc EXCEPT ![k] = "ok"]
    /\ IF slot # "none"
       THEN Put(slot, drop(Obj(slot)))
       ELSE UNCHANGED objVars
    /\ slot' = cw[k]
    /\ cw' = [cw EXCEPT ![k] = "none"]
    /\ pass_result' = NoPass
    /\ UNCHANGED exists
    /\ UNCHANGED <<file, rest, lines_left, emitted>>
    /\ UNCHANGED <<apiVars, parseVars, auxVars, unitVars>>

\* stop_log_watcher
CmdStopWatcher ==
    /\ IF slot # "none"
       THEN Put(slot, drop(stop(Obj(slot))))
       ELSE UNCHANGED objVars
    /\ slot' = "none"
    /\ pass_result' = NoPass
    /\ UNCHANGED <<exists, cpc, cw>>
    /\ UNCHANGED <<file, rest, lines_left, emitted>>
    /\ UNCHANGED <<apiVars, parseVars, auxVars, unitVars>>

\* the log file is removed
Delete ==
    /\ exists
    /\ exists' = FALSE
    /\ file' = <<>>
    /\ rest' = <<>>
    /\ notif' = Notified
    /\ pass_result' = NoPass
    /\ UNCHANGED <<slot, cpc, cw>>
    /\ UNCHANGED <<lines_left, tpc, file_position, start_len, watcher,
                   stop_tx, stop_chan, pending, orphans, starting, emitted>>
    /\ UNCHANGED <<apiVars, parseVars, auxVars, unitVars>>

\* the game creates the log file anew
Create ==
    /\ ~exists
    /\ exists' = TRUE
    /\ notif' = Notified
    /\ pass_result' = NoPass
    /\ UNCHANGED <<slot, cpc, cw>>
    /\ UNCHANGED <<file, rest, lines_left, tpc, file_position, start_len,
                   watcher, stop_tx, stop_chan, pending, orphans, starting,
                   emitted>>
    /\ UNCHANGED <<apiVars, parseVars, auxVars, unitVars>>

\* ------------------------------------------------------------------------
\* parse_line on its own
\* ------------------------------------------------------------------------
\* a line is handed to parse_line
Feed(l) ==
    /\ line = <<>> \/ parsed # Unparsed
    /\ line' = l
    /\ parsed' = Unparsed
    /\ UNCHANGED <<apiVars, tailVars, cmdVars, unitVars, auxVars>>

\* parse_line returns
Parse ==
    /\ line # <<>>
    /\ parsed = Unparsed
    /\ parsed' = parse_line(line)
    /\ UNCHANGED line
    /\ UNCHANGED <<apiVars, tailVars, cmdVars, unitVars, auxVars>>

\* ------------------------------------------------------------------------
\* Specifications
\* ------------------------------------------------------------------------
\* The limiter under load: the service answers every request with 429,
\* so nothing is cached and every call goes through the limiter
InitLimiter == InitApi(MaxCalls) /\ TailIdle /\ CmdIdle /\ ParseIdle
        /\ UnitIdle /\ AuxIdle

NextLimiter ==
    \/ \E c \in Callers : Call(c, "get-items")
    \/ \E c \in Callers : GetCached(c)
    \/ \E c \in Callers : Lock(c)
    \/ \E c \in Callers : TryAcquire(c)
    \/ \E c \in Callers : Wake(c)
    \/ \E c \in Callers : Send(c)
    \/ \E c \in Callers : Respond(c, 429, "bad")
    \/ Tick

SpecLimiter == InitLimiter /\ [][NextLimiter]_vars

\* The client and its cache, from construction
Init == InitApi(MaxFetch) /\ TailIdle /\ CmdIdle /\ ParseIdle
        /\ UnitIdle /\ AuxIdle

Next ==
    \/ \E c \in Callers : \E u \in UrlsOf(c) : Call(c, u)
    \/ \E c \in Callers : GetCached(c)
    \/ \E c \in Callers : Lock(c)
    \/ \E c \in Callers : TryAcquire(c)
    \/ \E c \in Callers : Send(c)
    \/ \E c \in Callers, r \in Responses : Respond(c, r[1], r[2])
    \/ \E d \in Delays : Advance(d)

Spec == Init /\ [][Next]_vars

\* The tailer and the game, the client being idle.  Every notification is
\* one of a write to the log file; changes of the directory that leave the
\* file as it was are part of the specifications below.
InitTail == InitApi(0) /\ TailIdle /\ CmdIdle /\ ParseIdle
        /\ UnitIdle /\ AuxIdle

NextTail ==
    \/ \E l \in LogLines : \E n \in 1..Len(l) : Write(l, n)
    \/ WriteRest
    \/ \E w \in Direct : \E m \in BOOLEAN : FirstStart(w, m)
    \/ \E w \in Direct : StartStore(w)
    \/ \E w \in Direct : \E k \in BOOLEAN : StartWatch(w, k)
    \/ \E w \in Direct : Stop(w)
    \/ \E w \in Direct : CheckStop(w)
    \/ \E w \in Direct : RecvTimeout(w)
    \/ \E w \in Direct : \E ok \in BOOLEAN : ReadPass(w, ok)
    \/ \E w \in Direct : Emit(w)

SpecTail == InitTail /\ [][NextTail]_vars

\* The tailer under a fair scheduler: the loop thread is not starved, so
\* each of its steps is taken once it stays possible; recv_timeout returns
\* after RECV_TIMEOUT_MS at the latest.  The game writes whole lines.
NextFairTail ==
    \/ \E l \in LogLines : Write(l, Len(l))
    \/ \E w \in Direct : Notify(w)
    \/ \E w \in Direct : \E m \in BOOLEAN : FirstStart(w, m)
    \/ \E w \in Direct : StartStore(w)
    \/ \E w \in Direct : \E k \in BOOLEAN : StartWatch(w, k)
    \/ \E w \in Direct : Stop(w)
    \/ \E w \in Direct : CheckStop(w)
    \/ \E w \in Direct : RecvTimeout(w)
    \/ \E w \in Direct : \E ok \in BOOLEAN : ReadPass(w, ok)
    \/ \E w \in Direct : Emit(w)

FairTail ==
    /\ InitTail
    /\ [][NextFairTail]_vars
    /\ \A w \in Direct :
          /\ WF_vars(CheckStop(w))
          /\ WF_vars(RecvTimeout(w))
          /\ WF_vars(\E ok \in BOOLEAN : ReadPass(w, ok))
          /\ WF_vars(Emit(w))

\* The tailer, once started, with its successful read passes counted; a
\* pass can also fail on I/O
NextQuiet ==
    \/ \E l \in LogLines : \E n \in 1..Len(l) : Write(l, n)
    \/ WriteRest
    \/ \E w \in Direct : Notify(w)
    \/ \E w \in Direct : \E m \in BOOLEAN : FirstStart(w, m)
    \/ \E w \in Direct : StartStore(w)
    \/ \E w \in Direct : StartWatch(w, TRUE)
    \/ \E w \in Direct : CheckStop(w)
    \/ \E w \in Direct : RecvTimeout(w)
    \/ \E w \in Direct : QuietPass(w)
    \/ \E w \in Direct : ReadPass(w, FALSE)
    \/ \E w \in Direct : Emit(w)

SpecQuiet == InitTail /\ [][NextQuiet]_vars

\* The tailer stopped while notifications wait: the game writes whole
\* lines, changes can pile up in the channel, and the read passes made
\* after the stop signal are counted
NextStop ==
    \/ \E l \in LogLines : WriteLine(l)
    \/ \E w \in Direct : Notify(w)
    \/ \E w \in Direct : Flood(w)
    \/ \E w \in Direct : FirstStart(w, TRUE)
    \/ \E w \in Direct : StartStore(w)
    \/ \E w \in Direct : StartWatch(w, TRUE)
    \/ \E w \in Direct : Stop(w)
    \/ \E w \in Direct : CheckStop(w)
    \/ \E w \in Direct : RecvTimeout(w)
    \/ \E w \in Direct : \E ok \in BOOLEAN : LatePass(w, ok)
    \/ \E w \in Direct : Emit(w)

SpecStop == InitTail /\ [][NextStop]_vars

\* The tailer with passes that fail now and then: the game writes whole
\* lines, and the file cannot always be opened and read
NextRetry ==
    \/ \E l \in LogLines : Write(l, Len(l))
    \/ \E w \in Direct : Notify(w)
    \/ \E w \in Direct : FirstStart(w, TRUE)
    \/ \E w \in Direct : StartStore(w)
    \/ \E w \in Direct : StartWatch(w, TRUE)
    \/ \E w \in Direct : CheckStop(w)
    \/ \E w \in Direct : RecvTimeout(w)
    \/ \E w \in Direct : \E ok \in BOOLEAN : RetryPass(w, ok)
    \/ \E w \in Direct : Emit(w)

SpecRetry == InitTail /\ [][NextRetry]_vars

\* Content that cannot be decoded: the game writes whole lines, some of them
\* not valid UTF-8; the file can always be opened and read
NextContent ==
    \/ \E l \in ContentLines : Write(l, Len(l))
    \/ \E w \in Direct : Notify(w)
    \/ \E w \in Direct : FirstStart(w, TRUE)
    \/ \E w \in Direct : StartStore(w)
    \/ \E w \in Direct : StartWatch(w, TRUE)
    \/ \E w \in Direct : CheckStop(w)
    \/ \E w \in Direct : RecvTimeout(w)
    \/ \E w \in Direct : ReadPass(w, TRUE)
    \/ \E w \in Direct : Emit(w)

SpecContent == InitTail /\ [][NextContent]_vars

\* The two commands next to the fetch operations of one task: the service
\* answers a fetch with a well-formed body or with 429; proxy_image is
\* given a url of the image host or one of another host
NextAux ==
    \/ \E u \in UrlsOf("a") : Call("a", u)
    \/ GetCached("a")
    \/ Lock("a")
    \/ TryAcquire("a")
    \/ Send("a")
    \/ Respond("a", 200, "good")
    \/ Respond("a", 429, "bad")
    \/ ProxyImage(<<"https://", "web.poecdn.com", "/img">>)
    \/ ProxyImage(<<"https://", "evil.example", "/img">>)
    \/ \E r \in ImageResponses : ProxyRespond(r)
    \/ UploadToPobbin
    \/ \E r \in UploadResponses : UploadRespond(r)

SpecAux == Init /\ [][NextAux]_vars

\* Snapshots: two tasks run capture_snapshot_for_split, at the same time or
\* one after the other, on a new client; the scheduler is fair to them, a
\* request is answered or times out, and the insert returns.  The bucket
\* holds a token for every fetch of these runs.
InitSnap == InitApi(2 * MaxRuns * Cardinality(Callers)) /\ TailIdle
        /\ CmdIdle /\ ParseIdle /\ UnitIdle /\ AuxIdle

NextSnap ==
    \/ \E c \in Callers : SnapItems(c)
    \/ \E c \in Callers : SnapCached(c)
    \/ \E c \in Callers : Lock(c)
    \/ \E c \in Callers : TryAcquire(c)
    \/ \E c \in Callers : Send(c)
    \/ \E c \in Callers, r \in Responses : SnapRespond(c, r[1], r[2])
    \/ \E c \in Callers : SnapPassives(c)
    \/ \E c \in Callers, ok \in BOOLEAN : SnapInsert(c, ok)
    \/ \E c \in Callers : SnapEmit(c)

FairSnap ==
    /\ InitSnap
    /\ [][NextSnap]_vars
    /\ \A c \in Callers :
        /\ WF_vars(SnapCached(c))
        /\ SF_vars(Lock(c))
        /\ WF_vars(TryAcquire(c))
        /\ WF_vars(Send(c))
        /\ WF_vars(\E r \in Responses : SnapRespond(c, r[1], r[2]))
        /\ WF_vars(SnapPassives(c))
        /\ WF_vars(\E ok \in BOOLEAN : SnapInsert(c, ok))
        /\ WF_vars(SnapEmit(c))

\* proxy_image called with every url of ProxyUrls
NextProxy ==
    \/ \E u \in ProxyUrls : ProxyImage(u)
    \/ \E r \in ImageResponses : ProxyRespond(r)

SpecProxy == Init /\ [][NextProxy]_vars

\* A RateLimiter as PoeApiClient::new makes it, called directly
NextBucket ==
    \/ BucketTry
    \/ BucketUntil
    \/ BucketTick

SpecBucket == InitLimiter /\ [][NextBucket]_vars

\* The cache of a new client, called directly
NextCache ==
    \/ \E u \in CacheKeys, data \in Payloads, d \in Ttls : CachePut(u, data, d)
    \/ \E u \in CacheKeys : CacheGet(u)
    \/ \E d \in CacheDelays : CachePass(d)

SpecCache == Init /\ [][NextCache]_vars

\* parse_line applied to every line of ParseInputs and LevelInputs
InitParse == InitApi(0) /\ TailIdle /\ CmdIdle /\ ParseIdle
        /\ UnitIdle /\ AuxIdle

NextParse ==
    \/ \E l \in ParseInputs \cup LevelInputs : Feed(l)
    \/ Parse

SpecParse == InitParse /\ [][NextParse]_vars

\* The commands: two start_log_watcher invocations, stop_log_watcher at any
\* time, the loop threads of the watchers they make, and the game writing
\* whole lines, removing and recreating the file; the file can be read
\* whenever it exists
InitCmd == InitApi(0) /\ TailIdle /\ CmdIdle /\ ParseIdle
        /\ UnitIdle /\ AuxIdle

NextCmd ==
    \/ \E k \in Cmds : CmdCheck(k)
    \/ \E k \in Cmds : CmdStopOld(k)
    \/ \E k \in Cmds : CmdNew(k, exists)
    \/ \E w \in Watchers : StartStore(w)
    \/ \E k \in Cmds : \E ok \in BOOLEAN : CmdStartNew(k, ok)
    \/ \E k \in Cmds : CmdStore(k)
    \/ CmdStopWatcher
    \/ \E w \in Watchers : CheckStop(w)
    \/ \E w \in Watchers : RecvTimeout(w)
    \/ \E w \in Watchers : ReadPass(w, exists)
    \/ \E w \in Watchers : Emit(w)
    \/ Write(ZoneLine, Len(ZoneLine))
    \/ Delete
    \/ Create

SpecCmd == InitCmd /\ [][NextCmd]_vars

\* The tailer started again: the host calls start() on a LogWatcher at any
\* time, also while its loop thread runs, and stop(); the game writes
\* zone lines.  The loop threads are operating system threads and are not
\* starved: each of their steps is taken once it stays possible, and a
\* start() that has begun goes on.
NextAgain ==
    \/ Write(ZoneLine, Len(ZoneLine))
    \/ \E w \in Direct : Notify(w)
    \/ \E w \in Direct : Start(w, TRUE)
    \/ \E w \in Direct : StartStore(w)
    \/ \E w \in Direct : \E k \in BOOLEAN : StartWatch(w, k)
    \/ \E w \in Direct : Stop(w)
    \/ \E w \in Direct : CheckStop(w)
    \/ \E w \in Direct : RecvTimeout(w)
    \/ \E w \in Direct : ReadPass(w, TRUE)
    \/ \E w \in Direct : Emit(w)
    \/ \E w \in Direct : \E i \in 1..MaxOrphans : OrphanCheckStop(w, i)
    \/ \E w \in Direct : \E i \in 1..MaxOrphans : OrphanRecv(w, i)
    \/ \E w \in Direct : \E i \in 1..MaxOrphans : OrphanPass(w, i, TRUE)
    \/ \E w \in Direct : \E i \in 1..MaxOrphans : OrphanEmit(w, i)

FairAgain ==
    /\ InitTail
    /\ [][NextAgain]_vars
    /\ \A w \in Direct :
          /\ WF_vars(StartStore(w) \/ \E k \in BOOLEAN : StartWatch(w, k))
          /\ WF_vars(CheckStop(w) \/ RecvTimeout(w) \/ ReadPass(w, TRUE)
                        \/ Emit(w))
          /\ \A i \in 1..MaxOrphans :
                WF_vars(OrphanCheckStop(w, i) \/ OrphanRecv(w, i)
                            \/ OrphanPass(w, i, TRUE) \/ OrphanEmit(w, i))

\* start_log_watcher called again, one invocation at a time: the file can
\* be missing, and the new tailer can fail to start; nothing is written
NextRestart ==
    \/ \E k \in Cmds : Invoke(k)
    \/ \E k \in Cmds : CmdStopOld(k)
    \/ \E k \in Cmds : CmdNew(k, exists)
    \/ \E w \in Watchers : StartStore(w)
    \/ \E k \in Cmds : \E ok \in BOOLEAN : CmdStartNew(k, ok)
    \/ \E k \in Cmds : CmdStore(k)
    \/ \E w \in Watchers : CheckStop(w)
    \/ \E w \in Watchers : RecvTimeout(w)
    \/ \E w \in Watchers : ReadPass(w, exists)
    \/ Delete
    \/ Create

SpecRestart == InitCmd /\ [][NextRestart]_vars

\* The limiter just after a burst has emptied the bucket: MAX_TOKENS calls
\* were made back to back and were all answered 429 before any time passed
InitDrained ==
    /\ tokens = 0
    /\ elapsed = 0
    /\ lock = "free"
    /\ cache = <<>>
    /\ pc = [c \in Callers |-> "idle"]
    /\ url = [c \in Callers |-> "none"]
    /\ sleep_left = [c \in Callers |-> 0]
    /\ returned = NoReturn
    /\ acq = [c \in Callers |-> 0]
    /\ sent = [c \in Callers |-> 0]
    /\ slept = [c \in Callers |-> FALSE]
    /\ requests = [i \in 1..MAX_TOKENS |-> 0]
    /\ budget = MaxWaitCalls
    /\ advances = 0
    /\ TailIdle
    /\ CmdIdle
    /\ ParseIdle
    /\ UnitIdle
    /\ AuxIdle

\* Scheduling: the runtime polls every ready task, timers fire, the clock
\* advances, and tokio's Mutex hands the lock out in FIFO order
FairLimiter ==
    /\ InitDrained
    /\ [][NextLimiter]_vars
    /\ WF_vars(Tick)
    /\ \A c \in Callers :
        /\ WF_vars(GetCached(c))
        /\ SF_vars(Lock(c))
        /\ WF_vars(TryAcquire(c))
        /\ WF_vars(Wake(c))
        /\ WF_vars(Send(c))

\* ------------------------------------------------------------------------
\* Properties of the rate limiter
\* ------------------------------------------------------------------------
\* primary requests issued during the last T ticks
ReqWithin(T) == Cardinality({i \in DOMAIN requests : requests[i] <= T})

\* C1: every primary request is issued after a successful try_acquire of the
\* same call, and in any interval of T seconds at most 10 + 5*T primary
\* requests are issued (T ranges over every window the call budget can
\* overfill; a window of T ticks lasts T / TicksPerSec seconds)
C1_RateBudget ==
    /\ \A c \in Callers : sent[c] <= acq[c]
    /\ \A T \in 0..(HistCap - 1) :
          ReqWithin(T) * TicksPerSec
             <= MAX_TOKENS * TicksPerSec + REFILL_RATE * T

\* more requests than the burst have been issued
C1_Witness == Len(requests) > MAX_TOKENS

\* C2: the bucket never holds less than zero or more than max_tokens
C2_TokensInRange == 0 <= tokens /\ tokens <= MAX_TOKENS * TokenScale

\* a try_acquire has failed on a bucket holding a fraction of a token, and
\* the bucket has been emptied and partly refilled before
C2_Witness ==
    /\ 0 < tokens /\ tokens < OneToken
    /\ \E c \in Callers : pc[c] = "sleep"

\* C3: a caller that is in the wait loop eventually acquires a token
C3_WaitTerminates ==
    \A c \in Callers : (pc[c] = "wait") ~> (pc[c] = "acquired")

\* a caller woke up, found that the token it had waited for was gone, and
\* sleeps again
C3_Witness == \E c \in Callers : pc[c] = "sleep" /\ slept[c]

\* C24: on a limiter made with max_tokens = 10 and refill_rate = 5, of the
\* try_acquire calls made before any time has passed the first ten succeed
\* and every later one fails
C24_BurstOfTen ==
    burst # Stale =>
        \A i \in 1..Len(burst) : burst[i] = (IF i <= 10 THEN 1 ELSE 0)

\* eleven calls were made on the new limiter at once
C24_Witness == burst # Stale /\ Len(burst) = 11

\* C27: time_until_available returns zero when tokens >= 1 and otherwise
\* (1 - tokens) / refill_rate seconds, which is 0.2 s (200 ms) for no tokens
\* at 5 tokens per second
C27_TimeUntilAvailable ==
    wait_time # -1 =>
        /\ tokens >= TokenScale => wait_time = 0
        /\ tokens < TokenScale =>
              wait_time * 5 * TokenScale = (TokenScale - tokens) * TicksPerSec
        /\ tokens = 0 => wait_time * RECV_TIMEOUT_MS = 200

\* time_until_available was called on a limiter holding half a token
C27_Witness == wait_time > 0 /\ tokens > 0 /\ tokens < TokenScale

\* the step is a try_acquire of caller c inside wait_for_rate_limit
Tries(c) == pc[c] = "locked" /\ pc'[c] # "locked"

\* C30: try_acquire refills first, to min(max_tokens, tokens + elapsed *
\* refill_rate) with last_update = now; it succeeds exactly when the
\* refilled amount is at least one token and then takes exactly one; when
\* it fails, tokens is left at the refilled amount
C30_RefillThenTake ==
    [][\A c \in Callers :
        Tries(c) =>
            LET r == Min(10 * TokenScale,
                         tokens + (elapsed * 5 * TokenScale) \div TicksPerSec)
            IN  /\ elapsed' = 0
                /\ IF r >= TokenScale
                   THEN pc'[c] = "acquired" /\ tokens' = r - TokenScale
                   ELSE pc'[c] = "sleep" /\ tokens' = r]_vars

\* a try_acquire failed on a bucket that time had refilled to half a token
C30_Witness ==
    \E c \in Callers :
        /\ pc[c] = "sleep"
        /\ sleep_left[c] = time_until_available(tokens)
        /\ elapsed = 0
        /\ tokens > 0
        /\ tokens < TokenScale

\* C31: no caller holds the rate-limiter lock while it sleeps in
\* wait_for_rate_limit: the lock is held exactly during the step that runs
\* try_acquire and time_until_available, so while one caller sleeps another
\* caller that waits for the lock can take it
C31_NoLockWhileSleeping ==
    \A c \in Callers :
        /\ lock = c <=> pc[c] = "locked"
        /\ pc[c] = "sleep" =>
              \A o \in Callers \ {c} : pc[o] = "wait" => ENABLED Lock(o)

\* a caller holds the lock and is about to run try_acquire while the other
\* caller sleeps, its wait not yet over
C31_Witness ==
    \E c \in Callers : \E o \in Callers \ {c} :
        /\ pc[c] = "sleep"
        /\ sleep_left[c] > 0
        /\ pc[o] = "locked"
        /\ lock = o

\* ------------------------------------------------------------------------
\* Properties of the log tailer
\* ------------------------------------------------------------------------
\* the events the read passes of w have returned: those delivered, in the
\* order of their delivery, and behind them those its thread has still to
\* emit
Taken(w) ==
    SelectSeq(emitted, LAMBDA e : e.by = w) \o pending[w]

\* C4: the events a watcher delivers are in file order: the offsets of their
\* lines increase strictly along the delivered sequence, so no event is
\* delivered twice and none before an event of an earlier line
C4_FileOrder ==
    \A w \in Watchers :
        \A i, j \in DOMAIN Taken(w) :
            i < j => Taken(w)[i].off < Taken(w)[j].off

\* events of two different read passes have been delivered
C4_Witness ==
    \E i, j \in DOMAIN emitted :
        i < j /\ emitted[i].by = emitted[j].by
              /\ emitted[i].from < emitted[j].from

\* the newline-terminated lines of the file that were started after start()
AppendedLines(w) ==
    LET ls == ReadLines(file, 0) IN
    {ls[i] : i \in {k \in DOMAIN ls :
                        /\ ls[k].off >= start_len[w]
                        /\ ls[k].line[Len(ls[k].line)] = "\n"}}

\* C5: no line is missed: after a successful read pass, the event of every
\* newline-terminated matching line appended after start() has been
\* delivered or is among those the pass has returned for delivery
C5_NoLineMissed ==
    \A w \in Watchers :
        pass_result[w] = "ok" =>
            \A a \in AppendedLines(w) :
                parse_line(a.line) # NoEvent =>
                    \E i \in DOMAIN Taken(w) :
                        /\ Taken(w)[i].off = a.off
                        /\ Taken(w)[i].ev = parse_line(a.line)

\* C6: a read pass leaves an unterminated trailing line unconsumed: a pass
\* that moves the cursor moves it to just behind a line terminator, and every
\* event it returns is the parse of a whole, newline-terminated line
C6_PartialLineLeft ==
    [][\A w \in Watchers :
          (tpc[w] = "recv" /\ file_position'[w] # file_position[w]) =>
              /\ file'[file_position'[w]] = "\n"
              /\ \A i \in DOMAIN pending'[w] :
                    LET e == LineEnd(file', pending'[w][i].off) IN
                    /\ file'[e] = "\n"
                    /\ pending'[w][i].ev =
                          parse_line(SubSeq(file', pending'[w][i].off + 1, e))]_vars

\* a tailer is active: it watches the directory and its thread runs
Active(w) == watcher[w] /\ tpc[w] \in Running

\* C12: under any interleaving of the commands at most one tailer is active
C12_OneActiveTailer == Cardinality({w \in Watchers : Active(w)}) <= 1

\* C39: when start_log_watcher has returned an error, the tailer that was
\* active when it was called is still active and its cursor is where it was
C39_FailedStartKeepsOld ==
    \A k \in Cmds :
        (cpc[k] = "err" /\ before[k].w # "none") =>
            /\ Active(before[k].w)
            /\ file_position[before[k].w] = before[k].pos

\* C35: a loop thread whose LogWatcher was stopped, dropped, replaced or
\* started again eventually exits: a thread whose stop sender has been used
\* or is gone ends, and so does every thread a later start() has left
\* behind
C35_EveryThreadExits ==
    \A w \in Watchers :
        /\ (tpc[w] \in Running /\ stop_chan[w] # "empty")
                ~> (tpc[w] \notin Running \/ stop_chan[w] = "empty")
        /\ (orphans[w] # <<>>) ~> (orphans[w] = <<>>)

\* C13: after stop() on a started tailer the loop thread eventually exits:
\* the stop check of the next iteration sees the signal, and between two
\* stop checks the thread makes one bounded receive, with the read pass it
\* may trigger and the emits of the events of that pass
C13_StopTerminates ==
    /\ \A w \in Watchers :
          (tpc[w] # "none" /\ ~stop_tx[w]) ~> (tpc[w] = "exited")
    /\ [][\A w \in Watchers :
            /\ (tpc[w] = "check_stop" /\ stop_chan[w] = "signal"
                    /\ tpc'[w] # tpc[w]) => tpc'[w] = "exited"
            /\ (tpc[w] = "recv" /\ tpc'[w] # tpc[w])
                    => /\ tpc'[w] = after_pass(pending'[w])
                       /\ Len(pending'[w]) <= Len(file)
            /\ tpc[w] = "emit"
                    => /\ pending'[w] \in {pending[w], Tail(pending[w])}
                       /\ tpc'[w] = after_pass(pending'[w])]_vars

\* a tailer that delivered an event was stopped and its thread has exited
C13_Witness ==
    \E w \in Watchers :
        /\ tpc[w] = "exited"
        /\ \E i \in DOMAIN emitted : emitted[i].by = w

\* a tailer that was stopped or never started: no sender, no watcher
Stopped(w) == ~stop_tx[w] /\ ~watcher[w]

\* C14: stop() is idempotent: on a tailer that is stopped or was never
\* started it sends nothing and leaves the watcher and its thread as they
\* are, and a second stop() changes nothing the first has not changed
C14_StopIdempotent ==
    \A w \in Watchers :
        /\ Stopped(w) => stop(Obj(w)) = Obj(w)
        /\ stop(stop(Obj(w))) = stop(Obj(w))

\* a stopped tailer whose thread has not yet seen the signal
C14_Witness ==
    \E w \in Watchers :
        Stopped(w) /\ stop_chan[w] = "signal" /\ tpc[w] = "recv"

\* C15: start() puts the cursor at the end of the file, so no event of a
\* line that was in the file before start() is ever delivered
C15_NoHistoryReplay ==
    \A i \in DOMAIN emitted :
        emitted[i].off >= start_len[emitted[i].by]

\* C16: start() on a path whose file does not exist fails and the tailer
\* does not run: a watcher started while there was no file has no loop
\* thread and delivers no event
C16_NoFileNoTailer ==
    \A w \in Watchers :
        start_len[w] = -1 =>
            /\ tpc[w] = "none"
            /\ \A i \in DOMAIN emitted : emitted[i].by # w

\* start() has returned an error from the creation of the watcher: the
\* sender is stored, its receiver is gone and there is no watcher
StartFailed(w) ==
    stop_tx[w] /\ stop_chan[w] = "closed" /\ ~watcher[w] /\ starting[w] = "no"

\* C17: when the watcher cannot be created or subscribed, start() returns
\* before the loop thread is spawned: the tailer has no thread, runs no
\* read pass and delivers nothing
C17_NoThreadOnWatchError ==
    \A w \in Watchers :
        StartFailed(w) =>
            /\ tpc[w] = "none"
            /\ pass_result[w] = "none"
            /\ \A i \in DOMAIN emitted : emitted[i].by # w

\* start() has failed and the game has written to the file since
C17_Witness ==
    \E w \in Watchers : StartFailed(w) /\ Len(file) > start_len[w]

\* C18: a read pass that fails with an I/O error does not end the tailer:
\* the pass delivers nothing and leaves the cursor, the thread returns to
\* the top of its loop and, unless it is stopped, goes on to the next
\* receive
C18_PassErrorSurvived ==
    /\ [][\A w \in Watchers :
            pass_result'[w] = "err" =>
                /\ tpc'[w] = "check_stop"
                /\ file_position'[w] = file_position[w]
                /\ pending'[w] = <<>>
                /\ emitted' = emitted]_vars
    /\ \A w \in Watchers :
          (pass_result[w] = "err")
              ~> (tpc[w] = "recv" \/ stop_chan[w] # "empty")

\* a pass has failed with unread lines in the file and the tailer not stopped
C18_Witness ==
    \E w \in Watchers :
        /\ pass_result[w] = "err"
        /\ Len(file) > file_position[w]
        /\ stop_chan[w] = "empty"

\* C19: the tailer never halts on content it cannot classify: after a read
\* pass on a readable file, whatever the lines written before it hold, the
\* event of every matching newline-terminated line appended after start()
\* has been delivered or is among those the pass has returned for delivery
C19_ContentNeverHalts ==
    \A w \in Watchers :
        pass_result[w] # "none" =>
            \A a \in AppendedLines(w) :
                parse_line(a.line) # NoEvent =>
                    \E i \in DOMAIN Taken(w) :
                        /\ Taken(w)[i].off = a.off
                        /\ Taken(w)[i].ev = parse_line(a.line)

\* C33: while the file is only appended to, a read pass never moves the
\* cursor back, and the cursor never exceeds the current length of the file
C33_CursorMonotone ==
    /\ [](\A w \in Watchers : file_position[w] <= Len(file))
    /\ [][\A w \in Watchers :
            pass_result'[w] # "none" =>
                /\ file_position'[w] >= file_position[w]
                /\ file_position'[w] <= Len(file')]_vars

\* the cursor was advanced by two passes: events of two passes were
\* delivered, and the last pass left the cursor at the end of the file
C33_Witness ==
    \E w \in Watchers :
        /\ pass_result[w] = "ok"
        /\ file_position[w] = Len(file)
        /\ \E i, j \in DOMAIN emitted :
              /\ emitted[i].by = w /\ emitted[j].by = w
              /\ start_len[w] <= emitted[i].from
              /\ emitted[i].from < emitted[j].from

\* C34: a read pass that finds the file shorter than the cursor resets the
\* cursor to 0 and reads from there: it returns the events of the lines now
\* in the file for delivery and leaves the cursor at the end of the file
C34_TruncationResets ==
    [][\A w \in Watchers :
        (pass_result'[w] = "ok" /\ Len(file) < file_position[w]) =>
            /\ file_position'[w] = Len(file)
            /\ pending'[w] = Parsed(ReadLines(file, 0), w, 0)]_vars

\* C36: once stop() has sent the stop signal the loop thread makes at most
\* one more read pass, after which it emits the events of that pass and
\* then makes the stop check that ends it; a thread that has seen the
\* signal has nothing left to emit
C36_OnePassAfterStop ==
    \A w \in Watchers :
        /\ late[w] <= 1
        /\ late[w] = 1 => tpc[w] \in {"emit", "check_stop", "exited"}
        /\ (late[w] = 1 /\ tpc[w] \in {"emit", "check_stop"})
                => stop_chan[w] = "signal"
        /\ tpc[w] = "exited" => pending[w] = <<>>

\* the signal was sent while two notifications waited; the thread made one
\* more pass, which delivered an event, and has exited with a notification
\* left in the channel
C36_Witness ==
    \E w \in Watchers :
        /\ late[w] = 1
        /\ tpc[w] = "exited"
        /\ notif[w] > 0
        /\ \E i \in DOMAIN emitted : emitted[i].by = w

\* C37: a read pass that fails leaves the cursor and returns nothing to
\* deliver; the first pass that succeeds after it starts from the cursor the
\* failed pass started from and returns for delivery, once each and in
\* order, the events of all the lines from there to the end of the file
C37_FailedPassRetried ==
    [][\A w \in Watchers :
        /\ pass_result'[w] = "err" =>
              /\ file_position'[w] = file_position[w]
              /\ pending'[w] = <<>>
              /\ emitted' = emitted
        /\ (pass_result'[w] = "ok" /\ failed[w].pos # -1
                /\ ~failed[w].redone) =>
              /\ file_position[w] = failed[w].pos
              /\ Len(emitted) = failed[w].seen
              /\ pending'[w] =
                    Parsed(ReadLines(file, failed[w].pos), w, failed[w].pos)
              /\ file_position'[w] = Len(file)]_vars

\* a pass failed with a line unread, another line was written, and the next
\* pass succeeded: the events of both lines have been delivered
C37_Witness ==
    \E w \in Watchers :
        /\ tpc[w] = "check_stop"
        /\ failed[w].redone
        /\ failed[w].unread > 0
        /\ Len(file) - failed[w].pos > failed[w].unread
        /\ Len(emitted) = failed[w].seen + 2
        /\ emitted[Len(emitted)].from = failed[w].pos

\* C26: a read pass that succeeds when the file is as long as the previous
\* successful pass of the watcher found it returns no event and leaves the
\* cursor where it was, each time it is repeated
C26_QuietPassIdempotent ==
    [][\A w \in Watchers :
        (pass_result'[w] = "ok" /\ quiet[w].len = Len(file)) =>
            /\ pending'[w] = <<>>
            /\ file_position'[w] = file_position[w]]_vars

\* after a pass that delivered an event, two more passes succeeded with
\* nothing appended in between
C26_Witness ==
    /\ pass_result["w1"] = "ok"
    /\ quiet["w1"].n >= 2
    /\ quiet["w1"].len = Len(file)
    /\ \E i \in DOMAIN emitted : emitted[i].by = "w1"

\* ------------------------------------------------------------------------
\* Properties of parse_line
\* ------------------------------------------------------------------------
\* the event types in the order of their patterns
PatternOrder ==
    <<"zone_enter", "level_up", "death", "instance_details", "login">>

\* the patterns that match line l, as positions of PatternOrder
MatchingPatterns(l) ==
    LET s == Content(l) IN
    {i \in 1..5 :
        \/ i = 1 /\ ZoneAt(s) # {}
        \/ i = 2 /\ LevelAt(s) # {}
        \/ i = 3 /\ DeathAt(s) # {}
        \/ i = 4 /\ \E j \in 1..Len(s) : MarkerAt(s, j, "GID")
        \/ i = 5 /\ \E j \in 1..Len(s) : MarkerAt(s, j, "CON")}

\* C20: parse_line returns the event of the first pattern, in the order
\* zone-enter, level-up, death, instance-details, login, that matches the
\* line, and no event when none matches
C20_FirstPatternWins ==
    parsed # Unparsed =>
        IF MatchingPatterns(line) = {} THEN parsed = NoEvent
        ELSE parsed.type = PatternOrder[MinOf(MatchingPatterns(line))]

\* a line that matches the zone-enter and the death pattern was parsed
C20_Witness ==
    /\ parsed.type = "zone_enter"
    /\ {1, 3} \subseteq MatchingPatterns(line)

\* the last period of the text
LastPeriod(s) == MaxOf({i \in 1..Len(s) : s[i] = "."})

\* C21: for every line that matches the zone-enter pattern parse_line
\* returns ZoneEnter, and its zone_name is the text from the end of a
\* "You have entered " marker to the last period of the line, that period
\* excluded
C21_ZoneNameToLastPeriod ==
    LET s == Content(line) IN
    (parsed # Unparsed /\ 1 \in MatchingPatterns(line)) =>
        /\ parsed.type = "zone_enter"
        /\ parsed.name # <<>>
        /\ \E j \in 1..Len(s) :
            /\ MarkerAt(s, j, "ENT")
            /\ parsed.name = SubSeq(s, j + 2, LastPeriod(s) - 1)

\* a zone-enter line with a period inside the zone name was parsed
C21_Witness ==
    /\ parsed.type = "zone_enter"
    /\ \E i \in 1..Len(parsed.name) : parsed.name[i] = "."

\* C22: for every line in which the level-up pattern is the one that
\* applies and whose level field does not parse as a u32 (a digit that is
\* not ASCII, a number above u32::MAX), parse_line returns LevelUp with the
\* name and the class of the line and level 1
C22_LevelDefaultsTo1 ==
    parsed # Unparsed =>
        \A pre \in Prefixes, n \in PlainText, c \in PlainText,
           f \in FailingFields :
            line = LevelLineOf(pre, n, c, f) =>
                parsed = Event("level_up", "TS", n, c, 1)

\* a level-up line with a number above u32::MAX was parsed
C22_Witness ==
    /\ parsed.type = "level_up"
    /\ \E pre \in Prefixes, n \in PlainText, c \in PlainText :
        line = LevelLineOf(pre, n, c,
                   <<"4", "2", "9", "4", "9", "6", "7", "2", "9", "6">>)

\* C23: for every line "<timestamp> ...] <name> (<class>) is now level <n>"
\* with n a decimal number that fits a u32, parse_line returns LevelUp with
\* that name, that class and level n
C23_LevelUpFields ==
    parsed # Unparsed =>
        \A pre \in Prefixes, n \in PlainText, c \in PlainText,
           lc \in LevelCases :
            line = LevelLineOf(pre, n, c, lc.field) =>
                parsed = Event("level_up", "TS", n, c, lc.value)

\* the line of test_parse_level_up, level 10, was parsed
C23_Witness ==
    /\ parsed.type = "level_up"
    /\ parsed.level = 10
    /\ line = LevelLineOf(<<"TS", "x">>, <<"x">>, <<"x">>, <<"1", "0">>)

\* ------------------------------------------------------------------------
\* Properties of the fetch operations
\* ------------------------------------------------------------------------
\* the cache holds an entry for u that has not expired
Live(u) == u \in DOMAIN cache /\ cache[u].ttl_left > 0

\* caller c leaves its cache lookup in this step
LooksUp(c) == pc[c] = "get_cached" /\ pc'[c] # "get_cached"

\* the call of caller c receives the outcome of its request in this step
Receives(c) == pc[c] = "inflight" /\ pc'[c] # "inflight"

\* C7: a call whose key has an unexpired entry returns the result of the
\* cached payload; it takes no token and issues no request
C7_HitWithinTtl ==
    [][\A c \in Callers :
        (LooksUp(c) /\ Live(url[c])) =>
            /\ pc'[c] = "idle"
            /\ returned' =
                 Returns(from_str(cache[url[c]].data), "cache", 0)
            /\ tokens' = tokens
            /\ elapsed' = elapsed
            /\ requests' = requests
            /\ cache' = cache]_vars

\* a call was served from the cache after time had passed
C7_Witness == returned.src = "cache" /\ advances > 0 /\ Len(requests) = 1

\* ticks since the entry of key u was stored, counted up to its TTL
Age(u) ==
    (IF u = "get-characters" THEN 60 ELSE 30) * TicksPerSec
        - cache[u].ttl_left

\* C11: a successful fetch stores its body for 60 s (get_characters) or 30 s
\* (get_items, get_passive_skills): a lookup of the key less than that time
\* after the store is a hit, a lookup at or after it is a miss that goes on
\* to the rate limiter
C11_TtlPerOperation ==
    [][\A c \in Callers :
        /\ (Receives(c) /\ cache' # cache) => cache'[url[c]].ttl_left =
                (IF url[c] = "get-characters" THEN 60 ELSE 30) * TicksPerSec
        /\ (LooksUp(c) /\ url[c] \in DOMAIN cache) =>
                IF Age(url[c]) <
                      (IF url[c] = "get-characters" THEN 60 ELSE 30)
                          * TicksPerSec
                THEN pc'[c] = "idle" /\ returned'.src = "cache"
                ELSE pc'[c] = "wait" /\ returned' = NoReturn]_vars

\* the character list was fetched again, exactly 60 s after it was stored:
\* only task a fetches it, so its second request follows a lookup that found
\* the entry of its first
C11_Witness ==
    /\ pc["a"] = "inflight"
    /\ url["a"] = "get-characters"
    /\ "get-characters" \in DOMAIN cache
    /\ cache["get-characters"].ttl_left = 0
    /\ Len(requests) = 2
    /\ requests[2] = 0
    /\ advances = 2

\* C25: the entry of a key is the payload of the last cache_response for
\* that key, expiring ttl after that call, whatever the key held before; a
\* get_cached made before the ttl has passed returns that payload, one made
\* after more than the ttl has passed returns nothing, and so does one for a
\* key that was never stored
C25_EntryLifetime ==
    /\ \A u \in DOMAIN stored :
        /\ u \in DOMAIN cache
        /\ cache[u].data = stored[u].data
        /\ cache[u].ttl_left = Max(stored[u].ttl - stored[u].age, 0)
    /\ looked.key # "none" =>
        IF looked.key \in DOMAIN stored
        THEN LET e == stored[looked.key] IN
             /\ e.age < e.ttl => looked.val = <<e.data>>
             /\ e.age > e.ttl => looked.val = <<>>
        ELSE looked.val = <<>>

\* a key was stored twice, the second time with the other payload and for
\* one second, and was found nine ticks later
C25_Witness ==
    /\ looked.key = "get-items"
    /\ looked.val = <<"bad">>
    /\ stored["get-items"].n = 2
    /\ stored["get-items"].ttl = TicksPerSec
    /\ stored["get-items"].age = TicksPerSec - 1

\* the step is a get_cached call made directly
Looks == looked' # looked /\ looked'.key # "none"

\* C32: get_cached returns the stored payload only when the key has an entry
\* and now < expires_at; for an expired entry it returns nothing, as for a
\* key without an entry; it never changes the cache, so the expired entry
\* stays until the next cache_response for its key
C32_LookupReadOnly ==
    [][Looks =>
        LET u == looked'.key IN
        /\ cache' = cache
        /\ looked'.val =
              (IF u \in DOMAIN stored /\ stored[u].age < stored[u].ttl
               THEN <<stored[u].data>> ELSE <<>>)]_vars

\* an entry was looked up after it had expired: the lookup returned nothing
\* and the entry is still in the cache; the other key was never stored
C32_Witness ==
    /\ looked.key = "get-items"
    /\ looked.val = <<>>
    /\ "get-items" \in DOMAIN stored
    /\ stored["get-items"].age > stored["get-items"].ttl
    /\ "get-items" \in DOMAIN cache
    /\ cache["get-items"].data = stored["get-items"].data
    /\ "get-characters" \notin DOMAIN cache

\* the step belongs to proxy_image or upload_to_pobbin
AuxStep == auxVars' # auxVars

\* C28: a step of proxy_image or of upload_to_pobbin, wherever the fetch
\* operations are, leaves the limiter (tokens, last_update, its lock) and
\* every cache entry as they were
C28_AuxBypass ==
    [][AuxStep =>
        /\ tokens' = tokens
        /\ elapsed' = elapsed
        /\ lock' = lock
        /\ cache' = cache]_vars

\* both commands have a request out while a fetch that took a token is in
\* flight and the cache holds an entry
C28_Witness ==
    /\ apc["proxy_image"] = "sent"
    /\ apc["upload_to_pobbin"] = "sent"
    /\ pc["a"] = "inflight"
    /\ cache # <<>>
    /\ tokens < 10 * TokenScale

\* the urls of ProxyUrls that parse and whose host is web.poecdn.com
TrustedUrls ==
    {<<"https://", "web.poecdn.com", "/img">>,
     <<"http://", "web.poecdn.com", "/img">>,
     <<"https://", "WEB.POECDN.COM", "/img">>,
     <<"https://", "web.poecdn.com", ":8080", "/img">>,
     <<"ftp://", "web.poecdn.com", "/img">>}

\* C29: every request proxy_image has issued is for a url that parses and
\* has the host web.poecdn.com, and goes to that host; a call with any
\* other url has returned an error and has issued no request
C29_TrustedHostOnly ==
    /\ \A r \in aux_sent :
        r.op = "proxy_image" => r.url \in TrustedUrls /\ r.host = "web.poecdn.com"
    /\ (aurl # <<>> /\ aurl \notin TrustedUrls) =>
        /\ aret.op = "proxy_image"
        /\ aret.kind = "err"
        /\ apc["proxy_image"] = "idle"
        /\ \A r \in aux_sent : r.url # aurl

\* a url with the image host as its userinfo was refused after an image
\* had been fetched
C29_Witness ==
    /\ aurl = <<"https://", "web.poecdn.com", "@", "evil.example", "/img">>
    /\ aret = AuxRet("proxy_image", "err",
                     "Only web.poecdn.com URLs are allowed")
    /\ aux_sent # {}

\* C8: no single-flight suppression: every call that missed takes its own
\* token and issues its own request, whatever else is in flight
C8_NoSingleFlight ==
    /\ \A c \in Callers : pc[c] = "inflight" => acq[c] = 1 /\ sent[c] = 1
    /\ Len(requests) >= Cardinality({c \in Callers : pc[c] = "inflight"})

\* two calls for the same key both missed and both have a request in flight
C8_Witness ==
    /\ \A c \in Callers : pc[c] = "inflight" /\ url[c] = "get-items"
    /\ Len(requests) = 2
    /\ cache = <<>>

\* C9: on 403 or 429 the call returns the domain error, issues no further
\* request and leaves the cache as it was
C9_DomainErrors ==
    [][\A c \in Callers :
        (Receives(c) /\ returned'.status \in {403, 429}) =>
            /\ pc'[c] = "idle"
            /\ returned'.kind =
                 (IF returned'.status = 403 THEN "private"
                  ELSE "rate_limited")
            /\ requests' = requests
            /\ cache' = cache]_vars

\* a call was answered 403 while the cache held an entry
C9_Witness ==
    /\ returned.status = 403
    /\ returned.kind = "private"
    /\ cache # <<>>

\* C10: on any other non-success status the call returns a transport error
\* carrying the status and nothing is stored in the cache
C10_OtherStatusNotCached ==
    [][\A c \in Callers :
        (Receives(c) /\ returned'.status \notin {0, 200, 403, 429}) =>
            /\ returned'.kind = "transport"
            /\ cache' = cache]_vars

\* C38: a call that returns a deserialization error leaves the cache as it
\* was, and what is stored deserializes: no lookup is answered with a
\* deserialization error from the cache
C38_MalformedNotCached ==
    [][\A c \in Callers :
        /\ (Receives(c) /\ returned'.kind = "deserialize") => cache' = cache
        /\ LooksUp(c) =>
              ~(returned'.src = "cache" /\ returned'.kind = "deserialize")]_vars

\* the terminal events
Terminal == {"snapshot-complete", "snapshot-failed"}

\* C40: every run of capture_snapshot_for_split ends, and emits exactly one
\* terminal event, at its end; the event is snapshot-complete only when
\* get_items, get_passive_skills and the insert have all succeeded, and a
\* snapshot is stored only then; when get_items fails the run calls
\* nothing else and inserts nothing
C40_OneTerminalEvent ==
    /\ [](\A c \in Callers :
            LET t == snap[c] IN
            /\ t.pc # "idle" => t.events = <<>>
            /\ (t.pc = "idle" /\ t.runs > 0) =>
                  /\ Len(t.events) = 1
                  /\ t.events[1] \in Terminal
                  /\ t.events[1] = "snapshot-complete" <=>
                        /\ t.items_result = "ok"
                        /\ t.passives_result = "ok"
                        /\ t.insert_result = "ok"
                  /\ t.items_result # "ok" =>
                        /\ t.called = <<"get-items">>
                        /\ t.passives_result = "none"
                        /\ t.insert_result = "none"
            /\ t.rows <= t.runs
            /\ (t.runs > 0 /\ t.insert_result # "ok" /\ t.rows > 0)
                    => t.runs > 1)
    /\ \A c \in Callers : (snap[c].pc # "idle") ~> (snap[c].pc = "idle")

\* one run has ended with snapshot-complete and a snapshot stored, and the
\* other with snapshot-failed after its items fetch failed
C40_Witness ==
    \E c \in Callers : \E o \in Callers \ {c} :
        /\ snap[c].pc = "idle"
        /\ snap[c].events = <<"snapshot-complete">>
        /\ snap[c].rows = 1
        /\ snap[o].pc = "idle"
        /\ snap[o].events = <<"snapshot-failed">>
        /\ snap[o].items_result \notin {"none", "ok"}
        /\ snap[o].called = <<"get-items">>

TypeOK ==
    /\ tokens \in Int
    /\ elapsed \in 0..ElapsedCap(tokens)
====
